---- MODULE Spec2Model ----
(***************************************************************************)
(* Model of the screening engine (runEngine and the indicator library it   *)
(* calls) of the screener repository.                                      *)
(*                                                                         *)
(* Numbers.  The source computes with IEEE doubles.  The model computes    *)
(* with exact rationals <<n, d>> (d > 0, lowest terms); Math.sqrt is the   *)
(* only irrational operation and is carried to three decimals.  The pair   *)
(* <<0, 0>> stands for JavaScript null / undefined of a numeric field.     *)
(* Prices are whole dollars, volumes whole shares, market capitalisations  *)
(* are carried in millions of USD, and the clock counts whole days.        *)
(* Arrays are 1-based sequences: candles[candles.length - 1] of the source *)
(* is candles[Len(candles)] here.                                          *)
(***************************************************************************)
EXTENDS Integers, Sequences, FiniteSets, TLC

(***************************************************************************)
(* Arithmetic on JavaScript numbers                                        *)
(***************************************************************************)
Null == <<0, 0>>

AbsInt(x) == IF x < 0 THEN -x ELSE x

RECURSIVE GCD(_, _)
GCD(a, b) == IF b = 0 THEN a ELSE GCD(b, a % b)

\* the number n/d in lowest terms with a positive denominator
Num(n, d) ==
  LET g == GCD(AbsInt(n), AbsInt(d))
      s == IF d < 0 THEN -1 ELSE 1
  IN  <<(s * n) \div g, (s * d) \div g>>

I(n) == <<n, 1>>

Add(a, b) == Num(a[1] * b[2] + b[1] * a[2], a[2] * b[2])
Sub(a, b) == Num(a[1] * b[2] - b[1] * a[2], a[2] * b[2])
Mul(a, b) == Num(a[1] * b[1], a[2] * b[2])
Div(a, b) == Num(a[1] * b[2], a[2] * b[1])
Neg(a) == <<-a[1], a[2]>>
Abs(a) == <<AbsInt(a[1]), a[2]>>

\* a < b, by comparing integer parts and then the fractional parts through
\* their reciprocals (no product of numerator and denominator is formed)
RECURSIVE LtPos(_, _, _, _)
LtPos(n1, d1, n2, d2) ==
  LET q1 == n1 \div d1
      q2 == n2 \div d2
      r1 == n1 % d1
      r2 == n2 % d2
  IN  IF q1 # q2 THEN q1 < q2
      ELSE IF r2 = 0 THEN FALSE
      ELSE IF r1 = 0 THEN TRUE
      ELSE LtPos(d2, r2, d1, r1)

Lt(a, b) == LtPos(a[1], a[2], b[1], b[2])
Gt(a, b) == Lt(b, a)
Le(a, b) == ~Lt(b, a)
Ge(a, b) == ~Lt(a, b)
Min2(a, b) == IF Lt(b, a) THEN b ELSE a
Max2(a, b) == IF Lt(a, b) THEN b ELSE a
Max3(a, b, c) == Max2(Max2(a, b), c)

\* JavaScript truthiness of a number-or-null: null, undefined and 0 are falsy
Truthy(a) == a # Null /\ a[1] # 0
\* a || b on numbers
OrElse(a, b) == IF Truthy(a) THEN a ELSE b

\* floor(n * 10^k / d) for n >= 0, d > 0, by long division
RECURSIVE Pow10(_)
Pow10(k) == IF k = 0 THEN 1 ELSE 10 * Pow10(k - 1)

RECURSIVE FloorScaled(_, _, _)
FloorScaled(n, d, k) ==
  IF k = 0 THEN n \div d
  ELSE (n \div d) * Pow10(k) + FloorScaled((n % d) * 10, d, k - 1)

RECURSIVE ISqrtBetween(_, _, _)
ISqrtBetween(m, lo, hi) ==
  IF lo >= hi THEN lo
  ELSE LET mid == (lo + hi + 1) \div 2
       IN  IF mid * mid <= m THEN ISqrtBetween(m, mid, hi)
           ELSE ISqrtBetween(m, lo, mid - 1)

\* Math.sqrt, rounded down to three decimals
Sqrt(a) == Num(ISqrtBetween(FloorScaled(a[1], a[2], 6), 0, 46340), Pow10(3))

(***************************************************************************)
(* Array helpers                                                           *)
(***************************************************************************)
\* values.slice(-k)
SliceLast(s, k) == IF Len(s) <= k THEN s ELSE SubSeq(s, Len(s) - k + 1, Len(s))

\* values.slice(0, k)
SliceFirst(s, k) == IF Len(s) <= k THEN s ELSE SubSeq(s, 1, k)

\* the sum of s[lo..hi], halving the range to keep the recursion shallow
RECURSIVE SumRange(_, _, _)
SumRange(s, lo, hi) ==
  IF lo > hi THEN I(0)
  ELSE IF lo = hi THEN s[lo]
  ELSE LET mid == (lo + hi) \div 2
       IN  Add(SumRange(s, lo, mid), SumRange(s, mid + 1, hi))
\* values.reduce((sum, val) => sum + val, 0)
Sum(s) == SumRange(s, 1, Len(s))

RECURSIVE MaxRange(_, _, _)
MaxRange(s, lo, hi) ==
  IF lo = hi THEN s[lo]
  ELSE LET mid == (lo + hi) \div 2
       IN  Max2(MaxRange(s, lo, mid), MaxRange(s, mid + 1, hi))
\* Math.max(...values) of a non-empty array
MaxOf(s) == MaxRange(s, 1, Len(s))

RECURSIVE MinRange(_, _, _)
MinRange(s, lo, hi) ==
  IF lo = hi THEN s[lo]
  ELSE LET mid == (lo + hi) \div 2
       IN  Min2(MinRange(s, lo, mid), MinRange(s, mid + 1, hi))
\* Math.min(...values) of a non-empty array
MinOf(s) == MinRange(s, 1, Len(s))

Includes(s, x) == \E i \in 1..Len(s) : s[i] = x


\* array.sort(compare), which is stable: the elements of s ordered by
\* ascending key, elements with equal keys keeping their order in s.
\* keys[i] is the sort key of s[i].
RECURSIVE InsertByKey(_, _, _, _)
InsertByKey(sorted, sortedKeys, x, k) ==
  \* sorted, with x put after every element whose key is <= k
  IF sorted = <<>> \/ ~Lt(k, sortedKeys[Len(sorted)])
  THEN [items |-> Append(sorted, x), keys |-> Append(sortedKeys, k)]
  ELSE LET n == Len(sorted)
           r == InsertByKey(SubSeq(sorted, 1, n - 1), SubSeq(sortedKeys, 1, n - 1), x, k)
       IN  [items |-> Append(r.items, sorted[n]), keys |-> Append(r.keys, sortedKeys[n])]

RECURSIVE SortPrefix(_, _, _)
SortPrefix(s, keys, n) ==
  IF n = 0 THEN [items |-> <<>>, keys |-> <<>>]
  ELSE LET r == SortPrefix(s, keys, n - 1)
       IN  InsertByKey(r.items, r.keys, s[n], keys[n])

StableSort(s, keys) == SortPrefix(s, keys, Len(s)).items

\* s back to front
Reverse(s) == [i \in 1..Len(s) |-> s[Len(s) + 1 - i]]

(***************************************************************************)
(* contract.ts                                                             *)
(***************************************************************************)
NullStr == "null"

Digits == {"0", "1", "2", "3", "4", "5", "6", "7", "8", "9"}

\* /^\d{4}-\d{2}-\d{2}$/.test(s), s a sequence of characters
IsoDateRegex(s) ==
  /\ Len(s) = 10
  /\ \A i \in {1, 2, 3, 4, 6, 7, 9, 10} : s[i] \in Digits
  /\ s[5] = "-"
  /\ s[8] = "-"

\* new Date().toISOString().split('T')[0] at module load
TodayISO == <<"2", "0", "2", "5", "-", "1", "0", "-", "3", "1">>

SetupReasons ==
  {"Breakout", "Momentum", "Pullback", "Fib Pullback", "Consolidation", "Reversal",
   "Reversal_Accumulation", "Reversal_Distribution", "BB_Lower_Bounce",
   "BB_Upper_Reject", "Stoch_Oversold_Reversal", "Stoch_Overbought_Reversal"}

CandlestickPatterns ==
  {"doji", "hammer", "long_lower_shadow", "gravestone_doji", "shooting_star",
   "engulfing_bullish", "engulfing_bearish", "none"}

IndexNames == {"sp500", "dowjones", "nasdaq100", "russell2000"}

Timeframes == {"daily", "weekly", "monthly"}

DEFAULT_PARAMS ==
  [ user_sector |-> "*",
    user_industry |-> "*",
    market_cap_min |-> I(2000),
    market_cap_max |-> I(10000000),
    rsi_min |-> I(0),
    rsi_max |-> I(100),
    stoch_k_min |-> I(0),
    stoch_k_max |-> I(100),
    trend_type |-> "*",
    trend_lookback |-> I(60),
    ma_cross |-> "none",
    sr_proximity_pct |-> I(3),
    adx_min |-> I(0),
    atr_lookback |-> I(14),
    fib_reference |-> "swing_low_to_high",
    fib_zone |-> "*",
    max_results |-> I(50),
    as_of_date |-> TodayISO,
    leo_mode_enabled |-> FALSE,
    index_filters |-> <<"sp500", "dowjones", "nasdaq100">>,
    min_price_leo |-> I(50),
    candlestick_patterns |-> <<"doji", "hammer", "long_lower_shadow">>,
    require_volume_shift |-> TRUE,
    bb_bounce_enabled |-> TRUE,
    stoch_oversold_threshold |-> I(20),
    stoch_overbought_threshold |-> I(80),
    earnings_warning_days |-> I(30),
    timeframe |-> "weekly" ]

FIXED_FILTERS ==
  [ minPrice |-> I(30),
    minAvgVol20 |-> I(1000000),
    minRelativeVol |-> I(1),
    minBars |-> 250 ]

\* the error assertFixedFilters throws, "none" when it returns
assertFixedFilters ==
  LET F == FIXED_FILTERS
  IN  IF F.minPrice # I(30) \/ F.minAvgVol20 # I(1000000)
         \/ F.minRelativeVol # I(1) \/ F.minBars # 250
      THEN "FIXED_FILTERS mismatch"
      ELSE "none"

\* property names every object literal inherits from Object.prototype
ObjectPrototypeKeys ==
  {"constructor", "hasOwnProperty", "isPrototypeOf", "propertyIsEnumerable",
   "toLocaleString", "toString", "valueOf", "__proto__"}

\* key in { k1: true, k2: true, ... }
InObject(key, ownKeys) == key \in ownKeys \cup ObjectPrototypeKeys

\* Number.isInteger on a finite number
IsInteger(x) == x[2] = 1

\* const inRange = (x, a, b) => Number.isFinite(x) && x >= a && x <= b
inRange(x, a, b) == Ge(x, I(a)) /\ Le(x, I(b))

\* const m = { ...DEFAULT_PARAMS, ...p }
MergeParams(p) ==
  [f \in DOMAIN DEFAULT_PARAMS |-> IF f \in DOMAIN p THEN p[f] ELSE DEFAULT_PARAMS[f]]

\* the message of the first error validateParams throws on m, "none" when
\* every check passes
ValidationError(m) ==
  IF ~IsoDateRegex(m.as_of_date) THEN "as_of_date must be ISO YYYY-MM-DD"
  ELSE IF Gt(m.market_cap_min, m.market_cap_max)
    THEN "market_cap_min must be <= market_cap_max"
  ELSE IF ~inRange(m.rsi_min, 0, 100) \/ ~inRange(m.rsi_max, 0, 100) \/ Gt(m.rsi_min, m.rsi_max)
    THEN "RSI bounds must be within 0-100 and rsi_min <= rsi_max"
  ELSE IF ~inRange(m.stoch_k_min, 0, 100) \/ ~inRange(m.stoch_k_max, 0, 100)
          \/ Gt(m.stoch_k_min, m.stoch_k_max)
    THEN "Stochastic %K bounds must be within 0-100 and stoch_k_min <= stoch_k_max"
  ELSE IF ~IsInteger(m.trend_lookback) \/ Le(m.trend_lookback, I(0))
    THEN "trend_lookback must be a positive integer"
  ELSE IF ~IsInteger(m.max_results) \/ Le(m.max_results, I(0))
    THEN "max_results must be a positive integer"
  ELSE IF Lt(m.sr_proximity_pct, I(0))
    THEN "sr_proximity_pct must be a non-negative number"
  ELSE IF Lt(m.adx_min, I(0))
    THEN "adx_min must be a non-negative number"
  ELSE IF Le(m.atr_lookback, I(0)) \/ ~IsInteger(m.atr_lookback)
    THEN "atr_lookback must be a positive integer"
  ELSE IF ~InObject(m.ma_cross, {"20>50", "50>200", "20>200", "none"})
    THEN "ma_cross must be one of 20>50 | 50>200 | 20>200 | none"
  ELSE IF ~InObject(m.trend_type, {"up", "down", "sideways", "*"})
    THEN "trend_type must be up | down | sideways | *"
  ELSE IF ~InObject(m.fib_reference, {"swing_high_to_low", "swing_low_to_high"})
    THEN "fib_reference must be swing_high_to_low | swing_low_to_high"
  ELSE IF ~InObject(m.fib_zone,
                    {"38.2-50", "50-61.8", "38.2-61.8", "extension-127", "extension-161.8", "*"})
    THEN "fib_zone invalid"
  ELSE "none"

\* validateParams(p): the merged params and the error thrown ("none": m is returned)
validateParams(p) ==
  LET m == MergeParams(p)
  IN  [error |-> ValidationError(m), params |-> m]

(***************************************************************************)
(* engine.ts: the indicator library.  A candle is a record                 *)
(* [t, o, h, l, c, v]; t is the session's day number.                      *)
(***************************************************************************)
Closes(candles) == [i \in 1..Len(candles) |-> candles[i].c]
Highs(candles) == [i \in 1..Len(candles) |-> candles[i].h]
Lows(candles) == [i \in 1..Len(candles) |-> candles[i].l]
Volumes(candles) == [i \in 1..Len(candles) |-> candles[i].v]

sma(values, period) ==
  IF Len(values) < period THEN Null
  ELSE Div(Sum(SliceLast(values, period)), I(period))

\* rsi with the window that has neither gain nor loss taken as the midpoint
rsiFlatIsMidpoint(closes, period) ==
  IF Len(closes) < period + 1 THEN Null
  ELSE
    LET n == Len(closes)
        change(i) == Sub(closes[i], closes[i - 1])
        gains == Sum([j \in 1..period |->
                   IF Gt(change(n - period + j), I(0)) THEN change(n - period + j) ELSE I(0)])
        losses == Sum([j \in 1..period |->
                   IF Gt(change(n - period + j), I(0)) THEN I(0) ELSE Neg(change(n - period + j))])
        avgGain == Div(gains, I(period))
        avgLoss == Div(losses, I(period))
    IN  IF avgLoss = I(0) THEN (IF avgGain = I(0) THEN I(50) ELSE I(100))
        ELSE Sub(I(100), Div(I(100), Add(I(1), Div(avgGain, avgLoss))))

rsi(closes, period) ==
  IF Len(closes) < period + 1 THEN Null
  ELSE
    LET n == Len(closes)
        change(i) == Sub(closes[i], closes[i - 1])
        gains == Sum([j \in 1..period |->
                   IF Gt(change(n - period + j), I(0)) THEN change(n - period + j) ELSE I(0)])
        losses == Sum([j \in 1..period |->
                   IF Gt(change(n - period + j), I(0)) THEN I(0) ELSE Neg(change(n - period + j))])
        avgGain == Div(gains, I(period))
        avgLoss == Div(losses, I(period))
    IN  IF avgLoss = I(0) THEN I(100)
        ELSE Sub(I(100), Div(I(100), Add(I(1), Div(avgGain, avgLoss))))

stochasticK(candles, kPeriod, dPeriod) ==
  IF Len(candles) < kPeriod THEN Null
  ELSE
    LET slice == SliceLast(candles, kPeriod)
        high == MaxOf(Highs(slice))
        low == MinOf(Lows(slice))
        close == candles[Len(candles)].c
    IN  IF high = low THEN I(50)
        ELSE Mul(Div(Sub(close, low), Sub(high, low)), I(100))

\* the true range of bar i (i >= 2)
TrueRange(candles, i) ==
  LET current == candles[i]
      previous == candles[i - 1]
  IN  Max3(Sub(current.h, current.l),
           Abs(Sub(current.h, previous.c)),
           Abs(Sub(current.l, previous.c)))

atr(candles, period) ==
  IF Len(candles) < period + 1 THEN Null
  ELSE LET trs == [k \in 1..(Len(candles) - 1) |-> TrueRange(candles, k + 1)]
       IN  sma(trs, period)

\* the directional movements {plus, minus} of bar i (i >= 2)
DirectionalMove(candles, i) ==
  LET current == candles[i]
      previous == candles[i - 1]
      upMove == Sub(current.h, previous.h)
      downMove == Sub(previous.l, current.l)
  IN  [plus |-> IF Gt(upMove, downMove) /\ Gt(upMove, I(0)) THEN upMove ELSE I(0),
       minus |-> IF Gt(downMove, upMove) /\ Gt(downMove, I(0)) THEN downMove ELSE I(0)]

adx(candles, period) ==
  IF Len(candles) < period * 2 THEN Null
  ELSE
    LET dms == [k \in 1..(Len(candles) - 1) |-> DirectionalMove(candles, k + 1)]
        plusDI == OrElse(sma([k \in 1..Len(dms) |-> dms[k].plus], period), I(0))
        minusDI == OrElse(sma([k \in 1..Len(dms) |-> dms[k].minus], period), I(0))
    IN  IF Add(plusDI, minusDI) = I(0) THEN I(0)
        ELSE Mul(Div(Abs(Sub(plusDI, minusDI)), Add(plusDI, minusDI)), I(100))

\* the null result of bollingerBands
NoBands == [upper |-> Null, lower |-> Null, middle |-> Null]

\* {upper, lower, middle}, or NoBands
bollingerBands(closes, period, stdDev) ==
  IF Len(closes) < period THEN NoBands
  ELSE
    LET middle == sma(closes, period)
        slice == SliceLast(closes, period)
        variance == Div(Sum([k \in 1..Len(slice) |->
                              Mul(Sub(slice[k], middle), Sub(slice[k], middle))]), I(period))
        std == Sqrt(variance)
    IN  IF middle = Null THEN NoBands
        ELSE [upper |-> Add(middle, Mul(std, I(stdDev))),
              lower |-> Sub(middle, Mul(std, I(stdDev))),
              middle |-> middle]

determineTrend(candles, lookback) ==
  IF Len(candles) < lookback THEN "sideways"
  ELSE
    LET slice == SliceLast(candles, lookback)
        firstClose == slice[1].c
        lastClose == slice[Len(slice)].c
        change == Div(Sub(lastClose, firstClose), firstClose)
    IN  IF Gt(change, Num(5, 100)) THEN "up"
        ELSE IF Lt(change, Num(-5, 100)) THEN "down"
        ELSE "sideways"

calculateSRDistance(candles, proximityPct) ==
  IF Len(candles) < 20 THEN Null
  ELSE
    LET currentPrice == candles[Len(candles)].c
        resistance == MaxOf(Highs(SliceLast(candles, 20)))
        support == MinOf(Lows(SliceLast(candles, 20)))
        distanceToResistance == Mul(Div(Abs(Sub(currentPrice, resistance)), currentPrice), I(100))
        distanceToSupport == Mul(Div(Abs(Sub(currentPrice, support)), currentPrice), I(100))
    IN  Min2(distanceToResistance, distanceToSupport)

\* analyzeFibonacci without the zone "*"
analyzeFibonacciNoWildcard(candles, reference, zone) ==
  [hit |-> FALSE, bullishReaction |-> FALSE]

\* {hit, bullishReaction}
analyzeFibonacci(candles, reference, zone) ==
  IF Len(candles) < 50 THEN [hit |-> FALSE, bullishReaction |-> FALSE]
  ELSE
    LET slice == SliceLast(candles, 50)
        maxHigh == MaxOf(Highs(slice))
        minLow == MinOf(Lows(slice))
        swingHigh == IF reference = "swing_high_to_low" THEN minLow ELSE maxHigh
        swingLow == IF reference = "swing_high_to_low" THEN maxHigh ELSE minLow
        range == Sub(swingHigh, swingLow)
        currentPrice == candles[Len(candles)].c
        fib382 == Add(swingLow, Mul(range, Num(382, 1000)))
        fib50 == Add(swingLow, Mul(range, Num(5, 10)))
        fib618 == Add(swingLow, Mul(range, Num(618, 1000)))
        fib127 == Add(swingHigh, Mul(range, Num(27, 100)))
        fib1618 == Add(swingHigh, Mul(range, Num(618, 1000)))
        tolerance == Mul(range, Num(1, 100))
        hit ==
          CASE zone = "38.2-50" ->
                 Ge(currentPrice, Sub(fib382, tolerance)) /\ Le(currentPrice, Add(fib50, tolerance))
            [] zone = "50-61.8" ->
                 Ge(currentPrice, Sub(fib50, tolerance)) /\ Le(currentPrice, Add(fib618, tolerance))
            [] zone = "38.2-61.8" ->
                 Ge(currentPrice, Sub(fib382, tolerance)) /\ Le(currentPrice, Add(fib618, tolerance))
            [] zone = "extension-127" -> Le(Abs(Sub(currentPrice, fib127)), tolerance)
            [] zone = "extension-161.8" -> Le(Abs(Sub(currentPrice, fib1618)), tolerance)
            [] zone = "*" -> TRUE
            [] OTHER -> FALSE
        bullishReaction ==
          hit /\ Len(candles) >= 2 /\ Gt(candles[Len(candles)].c, candles[Len(candles) - 1].c)
    IN  [hit |-> hit, bullishReaction |-> bullishReaction]

(***************************************************************************)
(* engine.ts: setup predicates and scores of the standard classification   *)
(***************************************************************************)
LastCandle(candles) == candles[Len(candles)]

isBreakout(candles, indicators) ==
  IF ~Truthy(indicators.hh20) \/ ~Truthy(indicators.ll20) THEN FALSE
  ELSE
    LET currentPrice == LastCandle(candles).c
        volume == LastCandle(candles).v
        avgVol == OrElse(indicators.avgVol20, I(0))
    IN  Gt(currentPrice, indicators.hh20) /\ Gt(volume, Mul(avgVol, Num(15, 10)))

isMomentum(candles, indicators) ==
  /\ indicators.rsi14 # Null
  /\ Gt(indicators.rsi14, I(60))
  /\ indicators.adx14 # Null
  /\ Gt(indicators.adx14, I(25))
  /\ indicators.trend = "up"

isPullback(candles, indicators) ==
  IF ~Truthy(indicators.sma20) \/ indicators.rsi14 = Null THEN FALSE
  ELSE
    /\ indicators.trend = "up"
    /\ Le(LastCandle(candles).c, Mul(indicators.sma20, Num(102, 100)))
    /\ Lt(indicators.rsi14, I(50))
    /\ Gt(indicators.rsi14, I(30))

isConsolidation(candles, indicators) ==
  /\ indicators.bbWidth # Null
  /\ Lt(indicators.bbWidth, Num(1, 10))
  /\ indicators.adx14 # Null
  /\ Lt(indicators.adx14, I(20))

isReversal(candles, indicators) ==
  /\ indicators.rsi14 # Null
  /\ \/ Lt(indicators.rsi14, I(30)) /\ indicators.trend = "down"
     \/ Gt(indicators.rsi14, I(70)) /\ indicators.trend = "up"
  /\ indicators.srDistancePct # Null
  /\ Lt(indicators.srDistancePct, I(2))

calculateBreakoutScore(candles, indicators) ==
  LET volume == LastCandle(candles).v
      avgVol == OrElse(indicators.avgVol20, I(1))
      relVol == Div(volume, avgVol)
  IN  Min2(Mul(relVol, I(10)), I(100))

calculateMomentumScore(candles, indicators) ==
  LET rsiV == OrElse(indicators.rsi14, I(50))
      adxV == OrElse(indicators.adx14, I(0))
  IN  Add(Sub(rsiV, I(50)), adxV)

calculatePullbackScore(candles, indicators) ==
  LET rsiV == OrElse(indicators.rsi14, I(50))
      sma20 == OrElse(indicators.sma20, I(0))
      currentPrice == LastCandle(candles).c
      priceScore ==
        Max2(I(0), Sub(I(100), Mul(Div(Abs(Sub(currentPrice, sma20)), sma20), I(100))))
      rsiScore == Max2(I(0), Sub(I(50), rsiV))
  IN  Add(priceScore, rsiScore)

calculateFibPullbackScore(candles, indicators) ==
  Mul(calculatePullbackScore(candles, indicators), Num(12, 10))

calculateConsolidationScore(candles, indicators) ==
  LET bbWidth == OrElse(indicators.bbWidth, I(1))
      adxV == OrElse(indicators.adx14, I(50))
  IN  Add(Max2(I(0), Sub(I(100), Mul(bbWidth, I(1000)))), Max2(I(0), Sub(I(50), adxV)))

calculateReversalScore(candles, indicators) ==
  LET rsiV == OrElse(indicators.rsi14, I(50))
      srDistance == OrElse(indicators.srDistancePct, I(10))
      rsiExtreme == Max2(I(0), Sub(Abs(Sub(rsiV, I(50))), I(20)))
      proximityScore == Mul(Max2(I(0), Sub(I(10), srDistance)), I(10))
  IN  Add(rsiExtreme, proximityScore)

(***************************************************************************)
(* engine.ts: Leo methodology functions                                    *)
(***************************************************************************)
\* detectCandlestickPattern with the hammer test ahead of the doji test
detectCandlestickPatternHammerFirst(candles, atrValue) ==
  IF Len(candles) < 2 \/ ~Truthy(atrValue) THEN "none"
  ELSE
    LET current == candles[Len(candles)]
        previous == candles[Len(candles) - 1]
        body == Abs(Sub(current.c, current.o))
        range == Sub(current.h, current.l)
        upperShadow == Sub(current.h, Max2(current.o, current.c))
        lowerShadow == Sub(Min2(current.o, current.c), current.l)
        isBullish == Gt(current.c, current.o)
        prevBody == Abs(Sub(previous.c, previous.o))
        prevIsBullish == Gt(previous.c, previous.o)
    IN  IF Ge(lowerShadow, Mul(body, I(2))) /\ Lt(upperShadow, Mul(body, Num(5, 10)))
           /\ isBullish
          THEN "hammer"
        ELSE IF Lt(body, Mul(atrValue, Num(1, 10))) /\ Gt(range, I(0))
        THEN IF Ge(upperShadow, Mul(body, I(2))) /\ Lt(lowerShadow, Mul(body, Num(5, 10)))
             THEN "gravestone_doji"
             ELSE "doji"
        ELSE IF Gt(range, I(0)) /\ Gt(lowerShadow, Mul(range, Num(6, 10)))
          THEN "long_lower_shadow"
        ELSE IF Ge(upperShadow, Mul(body, I(2))) /\ Lt(lowerShadow, Mul(body, Num(5, 10)))
                /\ ~isBullish
          THEN "shooting_star"
        ELSE IF isBullish /\ ~prevIsBullish /\ Gt(body, prevBody)
                /\ Le(current.o, previous.c) /\ Ge(current.c, previous.o)
          THEN "engulfing_bullish"
        ELSE IF ~isBullish /\ prevIsBullish /\ Gt(body, prevBody)
                /\ Ge(current.o, previous.c) /\ Le(current.c, previous.o)
          THEN "engulfing_bearish"
        ELSE "none"

detectCandlestickPattern(candles, atrValue) ==
  IF Len(candles) < 2 \/ ~Truthy(atrValue) THEN "none"
  ELSE
    LET current == candles[Len(candles)]
        previous == candles[Len(candles) - 1]
        body == Abs(Sub(current.c, current.o))
        range == Sub(current.h, current.l)
        upperShadow == Sub(current.h, Max2(current.o, current.c))
        lowerShadow == Sub(Min2(current.o, current.c), current.l)
        isBullish == Gt(current.c, current.o)
        prevBody == Abs(Sub(previous.c, previous.o))
        prevIsBullish == Gt(previous.c, previous.o)
    IN  IF Lt(body, Mul(atrValue, Num(1, 10))) /\ Gt(range, I(0))
        THEN IF Ge(upperShadow, Mul(body, I(2))) /\ Lt(lowerShadow, Mul(body, Num(5, 10)))
             THEN "gravestone_doji"
             ELSE "doji"
        ELSE IF Ge(lowerShadow, Mul(body, I(2))) /\ Lt(upperShadow, Mul(body, Num(5, 10)))
                /\ isBullish
          THEN "hammer"
        ELSE IF Gt(range, I(0)) /\ Gt(lowerShadow, Mul(range, Num(6, 10)))
          THEN "long_lower_shadow"
        ELSE IF Ge(upperShadow, Mul(body, I(2))) /\ Lt(lowerShadow, Mul(body, Num(5, 10)))
                /\ ~isBullish
          THEN "shooting_star"
        ELSE IF isBullish /\ ~prevIsBullish /\ Gt(body, prevBody)
                /\ Le(current.o, previous.c) /\ Ge(current.c, previous.o)
          THEN "engulfing_bullish"
        ELSE IF ~isBullish /\ prevIsBullish /\ Gt(body, prevBody)
                /\ Ge(current.o, previous.c) /\ Le(current.c, previous.o)
          THEN "engulfing_bearish"
        ELSE "none"

\* analyzeVolumeShift with the two thresholds taken inclusively
analyzeVolumeShiftInclusive(candles, lookback) ==
  IF Len(candles) < lookback
  THEN [shift |-> "neutral", strength |-> I(0), buyerVolume |-> I(0), sellerVolume |-> I(0)]
  ELSE
    LET recent == SliceLast(candles, lookback)
        buyerVolume ==
          Sum([k \in 1..Len(recent) |->
                 IF Gt(recent[k].c, recent[k].o) THEN recent[k].v
                 ELSE IF Lt(recent[k].c, recent[k].o) THEN I(0)
                 ELSE Div(recent[k].v, I(2))])
        sellerVolume ==
          Sum([k \in 1..Len(recent) |->
                 IF Gt(recent[k].c, recent[k].o) THEN I(0)
                 ELSE IF Lt(recent[k].c, recent[k].o) THEN recent[k].v
                 ELSE Div(recent[k].v, I(2))])
        total == Add(buyerVolume, sellerVolume)
        buyerRatio == Div(buyerVolume, total)
    IN  IF total = I(0)
        THEN [shift |-> "neutral", strength |-> I(0), buyerVolume |-> I(0), sellerVolume |-> I(0)]
        ELSE IF Ge(buyerRatio, Num(6, 10))
          THEN [shift |-> "buyer",
                strength |-> Min2(Mul(Sub(buyerRatio, Num(5, 10)), I(200)), I(100)),
                buyerVolume |-> buyerVolume, sellerVolume |-> sellerVolume]
        ELSE IF Le(buyerRatio, Num(4, 10))
          THEN [shift |-> "seller",
                strength |-> Min2(Mul(Sub(Num(5, 10), buyerRatio), I(200)), I(100)),
                buyerVolume |-> buyerVolume, sellerVolume |-> sellerVolume]
        ELSE [shift |-> "neutral", strength |-> I(0),
              buyerVolume |-> buyerVolume, sellerVolume |-> sellerVolume]

\* {shift, strength, buyerVolume, sellerVolume}
analyzeVolumeShift(candles, lookback) ==
  IF Len(candles) < lookback
  THEN [shift |-> "neutral", strength |-> I(0), buyerVolume |-> I(0), sellerVolume |-> I(0)]
  ELSE
    LET recent == SliceLast(candles, lookback)
        buyerVolume ==
          Sum([k \in 1..Len(recent) |->
                 IF Gt(recent[k].c, recent[k].o) THEN recent[k].v
                 ELSE IF Lt(recent[k].c, recent[k].o) THEN I(0)
                 ELSE Div(recent[k].v, I(2))])
        sellerVolume ==
          Sum([k \in 1..Len(recent) |->
                 IF Gt(recent[k].c, recent[k].o) THEN I(0)
                 ELSE IF Lt(recent[k].c, recent[k].o) THEN recent[k].v
                 ELSE Div(recent[k].v, I(2))])
        total == Add(buyerVolume, sellerVolume)
        buyerRatio == Div(buyerVolume, total)
    IN  IF total = I(0)
        THEN [shift |-> "neutral", strength |-> I(0), buyerVolume |-> I(0), sellerVolume |-> I(0)]
        ELSE IF Gt(buyerRatio, Num(6, 10))
          THEN [shift |-> "buyer",
                strength |-> Min2(Mul(Sub(buyerRatio, Num(5, 10)), I(200)), I(100)),
                buyerVolume |-> buyerVolume, sellerVolume |-> sellerVolume]
        ELSE IF Lt(buyerRatio, Num(4, 10))
          THEN [shift |-> "seller",
                strength |-> Min2(Mul(Sub(Num(5, 10), buyerRatio), I(200)), I(100)),
                buyerVolume |-> buyerVolume, sellerVolume |-> sellerVolume]
        ELSE [shift |-> "neutral", strength |-> I(0),
              buyerVolume |-> buyerVolume, sellerVolume |-> sellerVolume]

\* the zones pushed for recentCandles[i] (i >= 3), the bullish one first
FVGsAt(recentCandles, i, currentPrice) ==
  LET prev == recentCandles[i - 2]
      current == recentCandles[i]
      bull == IF Gt(current.l, prev.h)
              THEN << [type |-> "bullish", topPrice |-> current.l, bottomPrice |-> prev.h,
                       midpoint |-> Div(Add(current.l, prev.h), I(2)),
                       startDate |-> prev.t, endDate |-> current.t,
                       isFilled |-> Le(currentPrice, current.l) /\ Ge(currentPrice, prev.h)] >>
              ELSE <<>>
      bear == IF Lt(current.h, prev.l)
              THEN << [type |-> "bearish", topPrice |-> prev.l, bottomPrice |-> current.h,
                       midpoint |-> Div(Add(prev.l, current.h), I(2)),
                       startDate |-> prev.t, endDate |-> current.t,
                       isFilled |-> Ge(currentPrice, current.h) /\ Le(currentPrice, prev.l)] >>
              ELSE <<>>
  IN  bull \o bear

RECURSIVE FVGsUpTo(_, _, _)
FVGsUpTo(recentCandles, i, currentPrice) ==
  IF i < 3 THEN <<>>
  ELSE FVGsUpTo(recentCandles, i - 1, currentPrice) \o FVGsAt(recentCandles, i, currentPrice)

detectFVGs(candles, lookback) ==
  IF Len(candles) < lookback + 2 THEN <<>>
  ELSE LET recentCandles == SliceLast(candles, lookback + 2)
       IN  FVGsUpTo(recentCandles, Len(recentCandles), LastCandle(candles).c)

\* {highs, lows}
detectSwingPoints(candles, strength) ==
  IF Len(candles) < strength * 2 + 1 THEN [highs |-> <<>>, lows |-> <<>>]
  ELSE
    LET positions == [k \in 1..(Len(candles) - 2 * strength) |-> k + strength]
        isHigh(i) == \A j \in 1..strength :
                        ~(Ge(candles[i - j].h, candles[i].h) \/ Ge(candles[i + j].h, candles[i].h))
        isLow(i) == \A j \in 1..strength :
                        ~(Le(candles[i - j].l, candles[i].l) \/ Le(candles[i + j].l, candles[i].l))
        highAt == SelectSeq(positions, isHigh)
        lowAt == SelectSeq(positions, isLow)
    IN  [highs |-> [k \in 1..Len(highAt) |->
                      [date |-> candles[highAt[k]].t, price |-> candles[highAt[k]].h,
                       type |-> "high", strength |-> strength]],
         lows |-> [k \in 1..Len(lowAt) |->
                      [date |-> candles[lowAt[k]].t, price |-> candles[lowAt[k]].l,
                       type |-> "low", strength |-> strength]]]

\* the null result of bollingerBandsExtended
NoBandsExt == [upper |-> Null, middle |-> Null, lower |-> Null, percentB |-> Null]

\* {upper, middle, lower, percentB}, or NoBandsExt
bollingerBandsExtended(closes, period, stdDevMult) ==
  IF Len(closes) < period THEN NoBandsExt
  ELSE
    LET middle == sma(closes, period)
        slice == SliceLast(closes, period)
        variance == Div(Sum([k \in 1..Len(slice) |->
                              Mul(Sub(slice[k], middle), Sub(slice[k], middle))]), I(period))
        std == Sqrt(variance)
        upper == Add(middle, Mul(std, I(stdDevMult)))
        lower == Sub(middle, Mul(std, I(stdDevMult)))
        currentPrice == closes[Len(closes)]
        percentB == IF upper # lower
                    THEN Div(Sub(currentPrice, lower), Sub(upper, lower))
                    ELSE Num(5, 10)
    IN  IF middle = Null THEN NoBandsExt
        ELSE [upper |-> upper, middle |-> middle, lower |-> lower, percentB |-> percentB]

checkEntryConfirmation(candles) ==
  IF Len(candles) < 2 THEN FALSE
  ELSE Gt(candles[Len(candles)].c, candles[Len(candles) - 1].h)

\* now is the value of new Date() when the function runs; dates are day numbers
checkEarningsWarning(meta, warningDays, now) ==
  IF meta.nextEarningsDate = Null THEN FALSE
  ELSE LET diffDays == Sub(meta.nextEarningsDate, I(now))
       IN  Ge(diffDays, I(0)) /\ Le(diffDays, warningDays)

\* the targets pushed for one FVG zone
FVGTargets(fvg, currentPrice) ==
  IF ~fvg.isFilled
     /\ \/ fvg.type = "bullish" /\ Gt(fvg.midpoint, currentPrice)
        \/ fvg.type = "bearish" /\ Lt(fvg.midpoint, currentPrice)
  THEN << [type |-> "fvg", price |-> fvg.midpoint, date |-> 0, confidence |-> 80] >>
  ELSE <<>>

RECURSIVE FVGTargetsUpTo(_, _, _)
FVGTargetsUpTo(zones, i, currentPrice) ==
  IF i = 0 THEN <<>>
  ELSE FVGTargetsUpTo(zones, i - 1, currentPrice) \o FVGTargets(zones[i], currentPrice)

\* the targets, in the order they are pushed, before the sort and the cap.
\* indicators.fvgZones and indicators.swingHighs are <<>> where the source
\* leaves them undefined: both guards then skip their loop, as for [].
CollectedTargets(candles, indicators) ==
  LET currentPrice == LastCandle(candles).c
      recentHighs == SliceLast(indicators.swingHighs, 3)
      above(high) == Gt(high.price, currentPrice)
      swings == SelectSeq(recentHighs, above)
  IN  FVGTargetsUpTo(indicators.fvgZones, Len(indicators.fvgZones), currentPrice)
      \o [k \in 1..Len(swings) |->
            [type |-> "swing", price |-> swings[k].price, date |-> swings[k].date,
             confidence |-> 70]]
      \o << [type |-> "percentage", price |-> Mul(currentPrice, Num(110, 100)),
             date |-> 0, confidence |-> 50] >>

\* calculatePriceTargetsFromIndicators without the final sort and slice
calculatePriceTargetsAsCollected(candles, indicators) ==
  IF Len(candles) < 20 THEN <<>> ELSE CollectedTargets(candles, indicators)

calculatePriceTargetsFromIndicators(candles, indicators) ==
  IF Len(candles) < 20 THEN <<>>
  ELSE LET targets == CollectedTargets(candles, indicators)
       IN  SliceFirst(StableSort(targets, [k \in 1..Len(targets) |-> targets[k].price]), 5)

\* the result of a classifier that matched nothing (null in the source)
NoSetup == [reason |-> NullStr, score |-> Null]

calculateLeoReversalScore(indicators, direction, volumeStrength) ==
  LET base == I(70)
      withBB ==
        IF indicators.bbPercentB # Null
        THEN IF direction = "bullish"
             THEN Add(base, Mul(Sub(Num(2, 10), indicators.bbPercentB), I(50)))
             ELSE Add(base, Mul(Sub(indicators.bbPercentB, Num(8, 10)), I(50)))
        ELSE base
      withStoch ==
        IF indicators.stochK # Null
        THEN IF direction = "bullish"
             THEN Add(withBB, Div(Sub(I(30), indicators.stochK), I(2)))
             ELSE Add(withBB, Div(Sub(indicators.stochK, I(70)), I(2)))
        ELSE withBB
      withVolume == Add(withStoch, Mul(volumeStrength, Num(2, 10)))
      withEntry == IF indicators.entryConfirmed = "true" THEN Add(withVolume, I(10)) ELSE withVolume
  IN  Min2(withEntry, I(100))

\* patternMatches with every pattern taken as requested
patternMatchesAnyPattern(pattern, params) == TRUE

\* const patternMatches: the pattern is one of the requested patterns
patternMatches(pattern, params) ==
  \/ Len(params.candlestick_patterns) = 0
  \/ pattern # NullStr /\ Includes(params.candlestick_patterns, pattern)

\* classifyLeoReversal with the oversold stochastic checked before the Bollinger bounce
classifyLeoReversalStochFirst(candles, indicators, params) ==
  IF ~params.leo_mode_enabled THEN NoSetup
  ELSE
    LET bb == indicators.bbPercentB
        stochK == indicators.stochK
        pattern == indicators.candlestickPattern
        volumeShift == indicators.volumeShift
        volumeStrength == OrElse(indicators.volumeShiftStrength, I(0))
        hasBullishPattern ==
          pattern # NullStr
          /\ pattern \in {"doji", "hammer", "long_lower_shadow", "engulfing_bullish"}
        hasBearishPattern ==
          pattern # NullStr
          /\ pattern \in {"gravestone_doji", "shooting_star", "engulfing_bearish"}
        bullishZone == bb # Null /\ Lt(bb, Num(2, 10))
                       /\ stochK # Null /\ Lt(stochK, params.stoch_oversold_threshold)
        bearishZone == bb # Null /\ Gt(bb, Num(8, 10))
                       /\ stochK # Null /\ Gt(stochK, params.stoch_overbought_threshold)
    IN  IF bullishZone /\ hasBullishPattern /\ patternMatches(pattern, params)
           /\ volumeShift = "buyer"
           /\ (~params.require_volume_shift \/ Gt(volumeStrength, I(30)))
          THEN [reason |-> "Reversal_Accumulation",
                score |-> calculateLeoReversalScore(indicators, "bullish", volumeStrength)]
        ELSE IF bullishZone /\ Lt(stochK, I(20))
          THEN [reason |-> "Stoch_Oversold_Reversal", score |-> Add(I(65), Sub(I(20), stochK))]
        ELSE IF bullishZone /\ hasBullishPattern /\ patternMatches(pattern, params) /\ params.bb_bounce_enabled
          THEN [reason |-> "BB_Lower_Bounce",
                score |-> Add(I(75), Sub(I(100), Mul(bb, I(100))))]
        ELSE IF bearishZone /\ hasBearishPattern /\ patternMatches(pattern, params)
                /\ volumeShift = "seller"
                /\ (~params.require_volume_shift \/ Gt(volumeStrength, I(30)))
          THEN [reason |-> "Reversal_Distribution",
                score |-> calculateLeoReversalScore(indicators, "bearish", volumeStrength)]
        ELSE IF bearishZone /\ hasBearishPattern /\ patternMatches(pattern, params) /\ params.bb_bounce_enabled
          THEN [reason |-> "BB_Upper_Reject",
                score |-> Add(I(75), Mul(Sub(bb, Num(8, 10)), I(500)))]
        ELSE IF bearishZone /\ Gt(stochK, I(80))
          THEN [reason |-> "Stoch_Overbought_Reversal", score |-> Add(I(65), Sub(stochK, I(80)))]
        ELSE NoSetup

classifyLeoReversal(candles, indicators, params) ==
  IF ~params.leo_mode_enabled THEN NoSetup
  ELSE
    LET bb == indicators.bbPercentB
        stochK == indicators.stochK
        pattern == indicators.candlestickPattern
        volumeShift == indicators.volumeShift
        volumeStrength == OrElse(indicators.volumeShiftStrength, I(0))
        hasBullishPattern ==
          pattern # NullStr
          /\ pattern \in {"doji", "hammer", "long_lower_shadow", "engulfing_bullish"}
        hasBearishPattern ==
          pattern # NullStr
          /\ pattern \in {"gravestone_doji", "shooting_star", "engulfing_bearish"}
        bullishZone == bb # Null /\ Lt(bb, Num(2, 10))
                       /\ stochK # Null /\ Lt(stochK, params.stoch_oversold_threshold)
        bearishZone == bb # Null /\ Gt(bb, Num(8, 10))
                       /\ stochK # Null /\ Gt(stochK, params.stoch_overbought_threshold)
    IN  IF bullishZone /\ hasBullishPattern /\ patternMatches(pattern, params)
           /\ volumeShift = "buyer"
           /\ (~params.require_volume_shift \/ Gt(volumeStrength, I(30)))
          THEN [reason |-> "Reversal_Accumulation",
                score |-> calculateLeoReversalScore(indicators, "bullish", volumeStrength)]
        ELSE IF bullishZone /\ hasBullishPattern /\ patternMatches(pattern, params) /\ params.bb_bounce_enabled
          THEN [reason |-> "BB_Lower_Bounce",
                score |-> Add(I(75), Sub(I(100), Mul(bb, I(100))))]
        ELSE IF bullishZone /\ Lt(stochK, I(20))
          THEN [reason |-> "Stoch_Oversold_Reversal", score |-> Add(I(65), Sub(I(20), stochK))]
        ELSE IF bearishZone /\ hasBearishPattern /\ patternMatches(pattern, params)
                /\ volumeShift = "seller"
                /\ (~params.require_volume_shift \/ Gt(volumeStrength, I(30)))
          THEN [reason |-> "Reversal_Distribution",
                score |-> calculateLeoReversalScore(indicators, "bearish", volumeStrength)]
        ELSE IF bearishZone /\ hasBearishPattern /\ patternMatches(pattern, params) /\ params.bb_bounce_enabled
          THEN [reason |-> "BB_Upper_Reject",
                score |-> Add(I(75), Mul(Sub(bb, Num(8, 10)), I(500)))]
        ELSE IF bearishZone /\ Gt(stochK, I(80))
          THEN [reason |-> "Stoch_Overbought_Reversal", score |-> Add(I(65), Sub(stochK, I(80)))]
        ELSE NoSetup

\* classifyStandard with the plain pullback checked before the Fibonacci one
classifyStandardPullbackFirst(candles, indicators) ==
  IF isBreakout(candles, indicators)
    THEN [reason |-> "Breakout", score |-> calculateBreakoutScore(candles, indicators)]
  ELSE IF isMomentum(candles, indicators)
    THEN [reason |-> "Momentum", score |-> calculateMomentumScore(candles, indicators)]
  ELSE IF isPullback(candles, indicators)
    THEN [reason |-> "Pullback", score |-> calculatePullbackScore(candles, indicators)]
  ELSE IF indicators.fibHit /\ indicators.reactionBullish
    THEN [reason |-> "Fib Pullback", score |-> calculateFibPullbackScore(candles, indicators)]
  ELSE IF isConsolidation(candles, indicators)
    THEN [reason |-> "Consolidation", score |-> calculateConsolidationScore(candles, indicators)]
  ELSE IF isReversal(candles, indicators)
    THEN [reason |-> "Reversal", score |-> calculateReversalScore(candles, indicators)]
  ELSE NoSetup

\* the standard predicates of classifySetup, first match wins
classifyStandard(candles, indicators) ==
  IF isBreakout(candles, indicators)
    THEN [reason |-> "Breakout", score |-> calculateBreakoutScore(candles, indicators)]
  ELSE IF isMomentum(candles, indicators)
    THEN [reason |-> "Momentum", score |-> calculateMomentumScore(candles, indicators)]
  ELSE IF indicators.fibHit /\ indicators.reactionBullish
    THEN [reason |-> "Fib Pullback", score |-> calculateFibPullbackScore(candles, indicators)]
  ELSE IF isPullback(candles, indicators)
    THEN [reason |-> "Pullback", score |-> calculatePullbackScore(candles, indicators)]
  ELSE IF isConsolidation(candles, indicators)
    THEN [reason |-> "Consolidation", score |-> calculateConsolidationScore(candles, indicators)]
  ELSE IF isReversal(candles, indicators)
    THEN [reason |-> "Reversal", score |-> calculateReversalScore(candles, indicators)]
  ELSE NoSetup

\* classifySetup with the standard classification checked before the Leo one
classifySetupStandardFirst(candles, indicators, params) ==
  LET standard == classifyStandard(candles, indicators)
  IN  IF standard # NoSetup THEN standard
      ELSE IF params.leo_mode_enabled THEN classifyLeoReversal(candles, indicators, params)
      ELSE NoSetup

\* classifySetup without the fall-through to the standard predicates in Leo mode
classifySetupLeoOnly(candles, indicators, params) ==
  IF params.leo_mode_enabled THEN classifyLeoReversal(candles, indicators, params)
  ELSE classifyStandard(candles, indicators)

classifySetup(candles, indicators, params) ==
  LET leoResult == classifyLeoReversal(candles, indicators, params)
  IN  IF params.leo_mode_enabled /\ leoResult # NoSetup THEN leoResult
      ELSE classifyStandard(candles, indicators)

(***************************************************************************)
(* engine.ts: calculateIndicators and the filters                          *)
(***************************************************************************)
\* an optional boolean: "true", "false", or NullStr when it is left undefined
Bool3(b) == IF b THEN "true" ELSE "false"

ToInt(x) == x[1]

\* calculateIndicators without the earnings warning: every indicator that is
\* computed from the candles and the params alone
PriceIndicators(candles, params) ==
  LET closes == Closes(candles)
      sma20 == sma(closes, 20)
      atrV == atr(candles, ToInt(params.atr_lookback))
      avgVol20 == sma(Volumes(candles), 20)
      bb == bollingerBands(closes, 20, 2)
      fibResult == analyzeFibonacci(candles, params.fib_reference, params.fib_zone)
      leo == params.leo_mode_enabled
      bbExt == bollingerBandsExtended(closes, 20, 2)
      volumeAnalysis == analyzeVolumeShift(candles, 5)
      swingPoints == detectSwingPoints(candles, 3)
  IN  [ sma20 |-> sma20,
        sma50 |-> sma(closes, 50),
        sma200 |-> sma(closes, 200),
        rsi14 |-> rsi(closes, 14),
        stochK |-> stochasticK(candles, 14, 3),
        atr |-> atrV,
        adx14 |-> adx(candles, 14),
        avgVol20 |-> avgVol20,
        relVol |-> IF Truthy(avgVol20) THEN Div(LastCandle(candles).v, avgVol20) ELSE Null,
        hh20 |-> MaxOf(SliceLast(Highs(candles), 20)),
        ll20 |-> MinOf(SliceLast(Lows(candles), 20)),
        bbWidth |-> IF bb # NoBands /\ Truthy(sma20)
                    THEN Div(Sub(bb.upper, bb.lower), sma20) ELSE Null,
        trend |-> determineTrend(candles, ToInt(params.trend_lookback)),
        srDistancePct |-> calculateSRDistance(candles, params.sr_proximity_pct),
        fibHit |-> fibResult.hit,
        reactionBullish |-> fibResult.bullishReaction,
        \* Leo methodology indicators
        bbUpper |-> IF leo /\ bbExt # NoBandsExt THEN bbExt.upper ELSE Null,
        bbLower |-> IF leo /\ bbExt # NoBandsExt THEN bbExt.lower ELSE Null,
        bbMiddle |-> IF leo /\ bbExt # NoBandsExt THEN bbExt.middle ELSE Null,
        bbPercentB |-> IF leo /\ bbExt # NoBandsExt THEN bbExt.percentB ELSE Null,
        candlestickPattern |-> IF leo THEN detectCandlestickPattern(candles, atrV) ELSE NullStr,
        volumeShift |-> IF leo THEN volumeAnalysis.shift ELSE NullStr,
        volumeShiftStrength |-> IF leo THEN volumeAnalysis.strength ELSE Null,
        fvgZones |-> IF leo THEN detectFVGs(candles, 20) ELSE <<>>,
        swingHighs |-> IF leo THEN swingPoints.highs ELSE <<>>,
        swingLows |-> IF leo THEN swingPoints.lows ELSE <<>>,
        entryConfirmed |-> IF leo THEN Bool3(checkEntryConfirmation(candles)) ELSE NullStr,
        earningsWithin30Days |-> NullStr ]

passesFixedFilters(candles, meta) ==
  IF Len(candles) < FIXED_FILTERS.minBars THEN FALSE
  ELSE
    LET lastCandle == LastCandle(candles)
        last20 == SliceLast(candles, 20)
        avgVol20 == Div(Sum(Volumes(last20)), I(Len(last20)))
        relVol == Div(lastCandle.v, avgVol20)
    IN  IF Le(lastCandle.c, FIXED_FILTERS.minPrice) THEN FALSE
        ELSE IF Lt(avgVol20, FIXED_FILTERS.minAvgVol20) THEN FALSE
        ELSE IF Lt(relVol, FIXED_FILTERS.minRelativeVol) THEN FALSE
        ELSE TRUE

passesUserFilters(meta, params) ==
  IF params.user_sector # "*" /\ meta.sector # params.user_sector THEN FALSE
  ELSE IF params.user_industry # "*" /\ meta.industry # params.user_industry THEN FALSE
  ELSE LET marketCap == OrElse(meta.marketCap, I(0))
       IN  ~(Lt(marketCap, params.market_cap_min) \/ Gt(marketCap, params.market_cap_max))

\* passesIndicatorFilters with the RSI test alone
passesIndicatorFiltersRsiOnly(indicators, params) ==
  ~(indicators.rsi14 = Null \/ Lt(indicators.rsi14, params.rsi_min)
    \/ Gt(indicators.rsi14, params.rsi_max))

passesIndicatorFilters(indicators, params) ==
  IF indicators.rsi14 = Null \/ Lt(indicators.rsi14, params.rsi_min)
     \/ Gt(indicators.rsi14, params.rsi_max) THEN FALSE
  ELSE IF ~params.leo_mode_enabled
          /\ (indicators.stochK = Null \/ Lt(indicators.stochK, params.stoch_k_min)
              \/ Gt(indicators.stochK, params.stoch_k_max)) THEN FALSE
  ELSE IF params.trend_type # "*" /\ indicators.trend # params.trend_type THEN FALSE
  ELSE IF indicators.adx14 = Null \/ Lt(indicators.adx14, params.adx_min) THEN FALSE
  ELSE IF params.ma_cross # "none"
          /\ (indicators.sma20 = Null \/ indicators.sma50 = Null \/ indicators.sma200 = Null)
    THEN FALSE
  ELSE IF params.ma_cross = "20>50" /\ Le(indicators.sma20, indicators.sma50) THEN FALSE
  ELSE IF params.ma_cross = "50>200" /\ Le(indicators.sma50, indicators.sma200) THEN FALSE
  ELSE IF params.ma_cross = "20>200" /\ Le(indicators.sma20, indicators.sma200) THEN FALSE
  ELSE IF indicators.srDistancePct # Null /\ Gt(indicators.srDistancePct, params.sr_proximity_pct)
    THEN FALSE
  ELSE TRUE

(***************************************************************************)
(* The bounded universe of inputs: candle series and ticker metadata       *)
(***************************************************************************)
K(t, o, h, l, c, v) == [t |-> t, o |-> I(o), h |-> I(h), l |-> I(l), c |-> I(c), v |-> I(v)]

\* n sessions: flat ones at price base and volume vol, then the sessions of
\* tail, each given as <<o, h, l, c, v>>
FlatThen(n, base, vol, tail) ==
  [i \in 1..n |->
     IF i <= n - Len(tail) THEN K(i, base, base, base, base, vol)
     ELSE LET b == tail[i - (n - Len(tail))] IN K(i, b[1], b[2], b[3], b[4], b[5])]

\* k sessions each closing step above the previous close (below, for a
\* negative step), opening at the previous close, the last with volume lastVol
Ramp(from, step, k, vol, lastVol) ==
  [j \in 1..k |->
     LET o == from + (j - 1) * step
         c == from + j * step
     IN  <<o, IF step > 0 THEN c ELSE o, IF step > 0 THEN o ELSE c, c,
           IF j = k THEN lastVol ELSE vol>>]

\* number of sessions of a full-length series
Bars == FIXED_FILTERS.minBars + 10

SeriesIds ==
  {"rally", "climb", "spike", "flat", "decline", "accum", "drift", "thin", "cheap", "short",
   "dip", "fade", "bounce", "peaks", "gaps", "reject"}

Series(id) ==
  CASE id = "rally" -> FlatThen(Bars, 100, 1200000, Ramp(100, 1, 20, 1200000, 1500000))
    [] id = "climb" ->
         FlatThen(Bars, 100, 1200000,
                  Ramp(100, 1, 16, 1200000, 1200000)
                  \o << <<116, 116, 115, 115, 1200000>>, <<115, 117, 115, 117, 1200000>>,
                        <<117, 117, 116, 116, 1200000>>, <<116, 118, 116, 118, 1800000>> >>)
    [] id = "spike" -> FlatThen(Bars, 100, 1200000, << <<100, 105, 100, 105, 2400000>> >>)
    [] id = "flat" -> FlatThen(Bars, 35, 1500000, <<>>)
    [] id = "decline" -> FlatThen(Bars, 125, 1200000, Ramp(125, -1, 20, 1200000, 1500000))
    [] id = "accum" ->
         FlatThen(Bars, 145, 1200000,
                  [j \in 1..19 |-> <<144 - 2 * j, 145 - 2 * j, 144 - 2 * j, 145 - 2 * j, 1200000>>]
                  \o << <<107, 108, 105, 108, 1500000>> >>)
    [] id = "drift" ->
         FlatThen(Bars, 100, 1200000,
                  Ramp(100, 2, 5, 1200000, 1200000) \o Ramp(110, -1, 5, 1200000, 1500000))
    [] id = "thin" -> FlatThen(Bars, 35, 990000, << <<35, 35, 35, 35, 1190000>> >>)
    [] id = "cheap" -> FlatThen(Bars, 30, 1500000, << <<30, 30, 30, 30, 2000000>> >>)
    [] id = "short" -> FlatThen(FIXED_FILTERS.minBars - 1, 100, 1200000, Ramp(100, 1, 20, 1200000, 1500000))
    [] id = "dip" ->
         FlatThen(Bars, 100, 1200000,
                  Ramp(100, 2, 10, 1200000, 1200000)
                  \o [j \in 1..10 |-> <<120, 120, 120, 120, 1200000>>]
                  \o Ramp(120, -1, 2, 1200000, 1200000) \o Ramp(118, 1, 1, 1200000, 1200000)
                  \o Ramp(119, -1, 2, 1200000, 1200000) \o Ramp(117, 1, 1, 1200000, 1500000))
    [] id = "bounce" ->
         FlatThen(Bars, 145, 1200000,
                  [j \in 1..19 |-> <<146 - 2 * j, 146 - 2 * j, 145 - 2 * j, 145 - 2 * j, 1200000>>]
                  \o << <<107, 108, 105, 108, 1500000>> >>)
    [] id = "fade" ->
         FlatThen(Bars, 100, 1200000,
                  Ramp(100, 2, 2, 1200000, 1200000) \o Ramp(104, -1, 3, 1200000, 1500000))
    [] id = "peaks" ->
         FlatThen(Bars, 100, 1200000,
                  [j \in 1..19 |->
                     <<100, CASE j = 1 -> 120 [] j = 5 -> 118 [] j = 9 -> 116 [] j = 13 -> 102
                              [] OTHER -> 100,
                       100, 100, 1200000>>]
                  \o << <<100, 103, 100, 103, 1500000>> >>)
    [] id = "gaps" ->
         FlatThen(Bars, 100, 1200000,
                  Ramp(100, 2, 6, 1200000, 1200000) \o Ramp(112, -1, 12, 1200000, 1200000)
                  \o Ramp(100, 1, 1, 1200000, 1500000))
    [] id = "reject" ->
         FlatThen(Bars, 100, 1200000,
                  Ramp(100, 2, 20, 1200000, 1200000)
                  \o << <<140, 142, 139, 139, 1500000>> >>)

\* the candle arrays, tabulated once
SeriesTable == [id \in SeriesIds |-> Series(id)]


\* In the engine a candle array is named by its series id; Arr(candles) is
\* its content.
Arr(candles) == SeriesTable[candles]

\* the fields of ScreenerParams that calculateIndicators reads from params
IndicatorKey(params) ==
  [ atr_lookback |-> params.atr_lookback,
    trend_lookback |-> params.trend_lookback,
    sr_proximity_pct |-> params.sr_proximity_pct,
    fib_reference |-> params.fib_reference,
    fib_zone |-> params.fib_zone,
    leo_mode_enabled |-> params.leo_mode_enabled ]

(***************************************************************************)
(* data/indexLists.ts                                                      *)
(***************************************************************************)
\* the ticker symbols of the bounded universe
Tickers ==
  {"AAPL", "MSFT", "NVDA", "JPM", "XOM", "TSLA", "AMD", "INTC", "IBM", "KO", "GME", "SIRI",
   "ACME", "CSCO", "PEP", "QCOM", "ORCL", "ADBE", "NFLX"}

\* INDEX_CONSTITUENTS, restricted to Tickers
INDEX_CONSTITUENTS ==
  [ sp500 |-> {"AAPL", "MSFT", "NVDA", "JPM", "XOM", "TSLA", "AMD", "INTC", "IBM", "KO", "CSCO",
               "PEP", "QCOM", "ORCL", "ADBE", "NFLX"},
    dowjones |-> {"AAPL", "MSFT", "JPM", "INTC", "IBM", "KO", "CSCO"},
    nasdaq100 |-> {"AAPL", "MSFT", "NVDA", "TSLA", "AMD", "INTC", "CSCO", "PEP", "QCOM",
                   "NFLX"},
    russell2000 |-> {"GME", "SIRI"},
    all |-> {} ]

\* the key of INDEX_CONSTITUENTS an index filter selects, NullStr when the
\* map has no such key (the lookup then yields undefined)
IndexKey(idx) ==
  IF idx \in {"sp500", "dowjones", "nasdaq100", "russell2000"} THEN idx
  ELSE IF idx = "*" THEN "all"
  ELSE NullStr

\* the loop of isTickerInIndices from filter i on: "true", "false", or
\* "throw" when INDEX_CONSTITUENTS[idx] is undefined and .includes is called on it
RECURSIVE IndicesFrom(_, _, _)
IndicesFrom(ticker, indexFilters, i) ==
  IF i > Len(indexFilters) THEN "false"
  ELSE IF IndexKey(indexFilters[i]) = NullStr THEN "throw"
  ELSE IF ticker \in INDEX_CONSTITUENTS[IndexKey(indexFilters[i])] THEN "true"
  ELSE IndicesFrom(ticker, indexFilters, i + 1)

isTickerInIndices(ticker, indexFilters) ==
  IF Len(indexFilters) = 0 THEN "true" ELSE IndicesFrom(ticker, indexFilters, 1)

(***************************************************************************)
(* The bounded universe of inputs: tickers, metadata, params               *)
(***************************************************************************)
\* the candle series of each ticker
SeriesOf ==
  [ AAPL |-> "rally", MSFT |-> "rally", NVDA |-> "climb", JPM |-> "spike", XOM |-> "flat",
    TSLA |-> "decline", AMD |-> "accum", INTC |-> "drift", IBM |-> "thin", KO |-> "cheap",
    GME |-> "short", SIRI |-> "rally", ACME |-> "rally", CSCO |-> "dip", PEP |-> "fade",
    QCOM |-> "bounce", ORCL |-> "peaks", ADBE |-> "gaps", NFLX |-> "reject" ]

Meta(ticker, sector, industry, cap, earnings) ==
  [ ticker |-> ticker, company |-> ticker, sector |-> sector, industry |-> industry,
    marketCap |-> cap, nextEarningsDate |-> earnings ]

\* the metadata map; ACME has no entry, SIRI has a null market cap
Metadata ==
  [ AAPL |-> Meta("AAPL", "Technology", "Hardware", I(3000000), I(1)),
    MSFT |-> Meta("MSFT", "Technology", "Software", I(2800000), Null),
    NVDA |-> Meta("NVDA", "Technology", "Semiconductors", I(1200000), I(40)),
    JPM |-> Meta("JPM", "Financials", "Banks", I(500000), Null),
    XOM |-> Meta("XOM", "Energy", "Oil", I(400000), Null),
    TSLA |-> Meta("TSLA", "Consumer", "Autos", I(800000), I(2)),
    AMD |-> Meta("AMD", "Technology", "Semiconductors", I(250000), I(1)),
    INTC |-> Meta("INTC", "Technology", "Semiconductors", I(150000), Null),
    IBM |-> Meta("IBM", "Technology", "Software", I(150000), Null),
    KO |-> Meta("KO", "Staples", "Beverages", I(260000), Null),
    GME |-> Meta("GME", "Consumer", "Retail", I(8000), Null),
    SIRI |-> Meta("SIRI", "Media", "Radio", Null, Null),
    CSCO |-> Meta("CSCO", "Technology", "Networking", I(200000), Null),
    PEP |-> Meta("PEP", "Staples", "Beverages", I(230000), Null),
    QCOM |-> Meta("QCOM", "Technology", "Semiconductors", I(180000), Null),
    ORCL |-> Meta("ORCL", "Technology", "Software", I(300000), Null),
    ADBE |-> Meta("ADBE", "Technology", "Software", I(220000), Null),
    NFLX |-> Meta("NFLX", "Media", "Streaming", I(240000), Null) ]

\* the tickers of the universe, in the order the data source lists them
Roster ==
  << "AAPL", "MSFT", "NVDA", "ACME", "JPM", "XOM", "AMD", "KO", "TSLA", "QCOM", "GME", "INTC",
     "IBM", "SIRI", "CSCO", "PEP", "ORCL", "ADBE", "NFLX" >>

\* largest number of tickers in one timeseries input
MaxTickers == 4

\* n consecutive tickers of the roster from position start on, wrapping around
Run(start, n) == [i \in 1..n |-> Roster[((start + i - 2) % Len(Roster)) + 1]]

\* the ticker lists of the timeseries inputs: up to MaxTickers consecutive
\* tickers of the roster, in roster order or in reverse roster order
TickerLists ==
  UNION { { Run(start, n), Reverse(Run(start, n)) } :
            start \in 1..Len(Roster), n \in 0..MaxTickers }

\* timeseries as Object.entries enumerates it
Timeseries(tickers) == [i \in 1..Len(tickers) |-> [ticker |-> tickers[i], candles |-> SeriesOf[tickers[i]]]]

With(f, v) == [DEFAULT_PARAMS EXCEPT ![f] = v]

\* result caps of the params inputs
Caps == {1, 2, 50}

\* params that validateParams accepts
ValidParams ==
  { [DEFAULT_PARAMS EXCEPT !.leo_mode_enabled = leo, !.max_results = I(cap)] :
      leo \in BOOLEAN, cap \in Caps }

\* params in Leo mode with one field of the Leo sub-configuration changed
LeoVariants ==
  { [DEFAULT_PARAMS EXCEPT !.leo_mode_enabled = TRUE, !.candlestick_patterns = <<>>],
    [DEFAULT_PARAMS EXCEPT !.leo_mode_enabled = TRUE, !.candlestick_patterns = <<"doji">>],
    [DEFAULT_PARAMS EXCEPT !.leo_mode_enabled = TRUE,
                           !.candlestick_patterns =
                             <<"doji", "hammer", "long_lower_shadow", "engulfing_bullish">>],
    [DEFAULT_PARAMS EXCEPT !.leo_mode_enabled = TRUE, !.bb_bounce_enabled = FALSE],
    [DEFAULT_PARAMS EXCEPT !.leo_mode_enabled = TRUE, !.stoch_oversold_threshold = I(10)] }

\* params with the bounds or selectors of one indicator filter changed
FilterVariants ==
  { [DEFAULT_PARAMS EXCEPT !.rsi_min = I(20), !.rsi_max = I(90)],
    With("adx_min", I(50)),
    With("trend_type", "up"),
    With("ma_cross", "20>50"),
    With("ma_cross", "50>200"),
    With("ma_cross", "20>200"),
    With("sr_proximity_pct", I(2)),
    With("fib_zone", "38.2-50"),
    [DEFAULT_PARAMS EXCEPT !.stoch_k_min = I(10), !.stoch_k_max = I(90)],
    [DEFAULT_PARAMS EXCEPT !.leo_mode_enabled = TRUE,
                           !.stoch_k_min = I(10), !.stoch_k_max = I(90)] }

\* params with one user filter changed: a market cap floor of zero, a narrower
\* market cap range, one sector, one industry
UserVariants ==
  { With("market_cap_min", I(0)),
    [DEFAULT_PARAMS EXCEPT !.market_cap_min = I(200000), !.market_cap_max = I(1000000)],
    With("user_sector", "Technology"),
    With("user_industry", "Semiconductors") }

\* params with one malformed field
MalformedParams ==
  { With("as_of_date", <<"1", "0", "/", "3", "1", "/", "2", "0", "2", "5">>),
    With("as_of_date", <<"2", "0", "2", "5", "-", "1", "-", "5">>),
    With("market_cap_min", I(20000000)),
    With("rsi_min", I(-1)),
    With("rsi_max", I(101)),
    With("rsi_min", Num(201, 2)),
    [DEFAULT_PARAMS EXCEPT !.rsi_min = I(70), !.rsi_max = I(30)],
    With("stoch_k_max", I(120)),
    [DEFAULT_PARAMS EXCEPT !.stoch_k_min = I(80), !.stoch_k_max = I(20)],
    With("trend_lookback", I(0)),
    With("trend_lookback", Num(121, 2)),
    With("max_results", I(0)),
    With("max_results", Num(5, 2)),
    With("sr_proximity_pct", I(-1)),
    With("adx_min", I(-5)),
    With("atr_lookback", I(0)),
    With("ma_cross", "50>20"),
    With("ma_cross", "toString"),
    With("trend_type", "flat"),
    With("fib_reference", "swing"),
    With("fib_zone", "23.6-38.2"),
    With("timeframe", "hourly"),
    [DEFAULT_PARAMS EXCEPT !.leo_mode_enabled = TRUE, !.timeframe = "hourly"],
    [DEFAULT_PARAMS EXCEPT !.leo_mode_enabled = TRUE, !.candlestick_patterns = <<"bogus">>],
    [DEFAULT_PARAMS EXCEPT !.leo_mode_enabled = TRUE, !.index_filters = <<"ftse100">>] }

\* the tabulated keys: those of the params validateParams lets through
IndicatorKeys ==
  { IndicatorKey(p) : p \in { q \in ValidParams \cup LeoVariants \cup FilterVariants
                                         \cup MalformedParams :
                                  ValidationError(q) = "none" } }

\* PriceIndicators of the series id under each of keys
RECURSIVE IndicatorsByKey(_, _)
IndicatorsByKey(id, keys) ==
  IF keys = {} THEN <<>>
  ELSE LET key == CHOOSE k \in keys : TRUE
       IN  (key :> PriceIndicators(SeriesTable[id], key)) @@ IndicatorsByKey(id, keys \ {key})

\* IndicatorsByKey of each series of ids
RECURSIVE IndicatorsBySeries(_)
IndicatorsBySeries(ids) ==
  IF ids = {} THEN <<>>
  ELSE LET id == CHOOSE s \in ids : TRUE
       IN  (id :> IndicatorsByKey(id, IndicatorKeys)) @@ IndicatorsBySeries(ids \ {id})

\* PriceIndicators of every series of the universe, tabulated once
IndicatorTable == IndicatorsBySeries(SeriesIds)

calculateIndicators(candles, params, meta, now) ==
  [ IndicatorTable[candles][IndicatorKey(params)] EXCEPT
      !.earningsWithin30Days =
        IF params.leo_mode_enabled
        THEN Bool3(checkEarningsWarning(meta, params.earnings_warning_days, now))
        ELSE NullStr ]

(***************************************************************************)
(* engine.ts: runEngine                                                    *)
(***************************************************************************)
\* the result of an iteration that leaves the loop body early (continue)
Skip == [kind |-> "skip"]

\* the end of an iteration: analyses.push unless classifySetup found no setup
PushAnalysis(ticker, candles, meta, indicators, setupResult) ==
  IF setupResult = NoSetup THEN Skip
  ELSE [kind |-> "push",
        analysis |-> [ticker |-> ticker, meta |-> meta, candles |-> candles,
                      indicators |-> indicators,
                      setupReason |-> setupResult.reason, score |-> setupResult.score]]

\* an iteration from the fixed filters on, for a ticker that has metadata
\* and enough bars; indicators is what calculateIndicators returns for it
FilterAndClassify(ticker, candles, meta, params, indicators) ==
  IF ~passesFixedFilters(Arr(candles), meta) THEN Skip
  ELSE IF ~passesUserFilters(meta, params) THEN Skip
  ELSE IF params.leo_mode_enabled /\ Lt(LastCandle(Arr(candles)).c, params.min_price_leo)
    THEN Skip
  ELSE IF params.leo_mode_enabled /\ Len(params.index_filters) > 0
          /\ isTickerInIndices(ticker, params.index_filters) = "throw"
    THEN [kind |-> "throw"]
  ELSE IF params.leo_mode_enabled /\ Len(params.index_filters) > 0
          /\ isTickerInIndices(ticker, params.index_filters) = "false"
    THEN Skip
  ELSE IF ~passesIndicatorFilters(indicators, params) THEN Skip
  ELSE PushAnalysis(ticker, candles, meta, indicators,
                    classifySetup(Arr(candles), indicators, params))

\* One iteration of the filter-and-analyze loop, for the entry
\* [ticker, candles] of timeseries.  kind is "skip" (continue), "push"
\* (analyses.push) or "throw" (the iteration raises).
AnalyzeTicker(ticker, candles, metadata, params, now) ==
  IF ticker \notin DOMAIN metadata \/ Len(Arr(candles)) < FIXED_FILTERS.minBars THEN Skip
  ELSE FilterAndClassify(ticker, candles, metadata[ticker], params,
                         calculateIndicators(candles, params, metadata[ticker], now))

\* the loop over the first n entries of timeseries: the analyses pushed, the
\* number of entries the loop has started on, and whether an iteration raised
RECURSIVE AnalyzeUpTo(_, _, _, _, _)
AnalyzeUpTo(timeseries, n, metadata, params, now) ==
  IF n = 0 THEN [analyses |-> <<>>, processed |-> 0, thrown |-> FALSE]
  ELSE
    LET before == AnalyzeUpTo(timeseries, n - 1, metadata, params, now)
        step == AnalyzeTicker(timeseries[n].ticker, timeseries[n].candles, metadata, params, now)
    IN  IF before.thrown THEN before
        ELSE IF step.kind = "throw"
          THEN [before EXCEPT !.processed = @ + 1, !.thrown = TRUE]
        ELSE IF step.kind = "push"
          THEN [before EXCEPT !.processed = @ + 1, !.analyses = Append(@, step.analysis)]
        ELSE [before EXCEPT !.processed = @ + 1]

\* SetupGroup with a sort that puts equal scores in reverse discovery order
SetupGroupTiesReversed(analyses, reason) ==
  LET inGroup(a) == a.setupReason = reason
      group == Reverse(SelectSeq(analyses, inGroup))
  IN  StableSort(group, [k \in 1..Len(group) |-> Neg(group[k].score)])

\* SetupGroup with the comparator's operands swapped (a.score - b.score)
SetupGroupAscending(analyses, reason) ==
  LET inGroup(a) == a.setupReason = reason
      group == SelectSeq(analyses, inGroup)
  IN  StableSort(group, [k \in 1..Len(group) |-> group[k].score])

\* SetupGroup with every analysis pushed to every group
SetupGroupEveryReason(analyses, reason) ==
  StableSort(analyses, [k \in 1..Len(analyses) |-> Neg(analyses[k].score)])

\* setupGroups[reason] after the grouping loop and the sort by score, descending
SetupGroup(analyses, reason) ==
  LET inGroup(a) == a.setupReason = reason
      group == SelectSeq(analyses, inGroup)
  IN  StableSort(group, [k \in 1..Len(group) |-> Neg(group[k].score)])

priorityOrder(params) ==
  IF params.leo_mode_enabled
  THEN << "Reversal_Accumulation", "BB_Lower_Bounce", "Stoch_Oversold_Reversal",
          "Reversal_Distribution", "BB_Upper_Reject", "Stoch_Overbought_Reversal",
          "Breakout", "Momentum", "Pullback", "Fib Pullback", "Consolidation", "Reversal" >>
  ELSE << "Breakout", "Momentum", "Pullback", "Fib Pullback", "Consolidation", "Reversal",
          "Reversal_Accumulation", "Reversal_Distribution", "BB_Lower_Bounce",
          "BB_Upper_Reject", "Stoch_Oversold_Reversal", "Stoch_Overbought_Reversal" >>

\* MergeFrom taking group.length instead of Math.min(group.length, remaining)
RECURSIVE MergeFromWholeGroups(_, _, _, _)
MergeFromWholeGroups(analyses, order, i, remaining) ==
  IF i > Len(order) THEN <<>>
  ELSE
    LET group == SetupGroup(analyses, order[i])
    IN  group
        \o (IF remaining - Len(group) <= 0 THEN <<>>
            ELSE MergeFromWholeGroups(analyses, order, i + 1, remaining - Len(group)))

\* the merge loop from position i of order on, with remaining slots left
RECURSIVE MergeFrom(_, _, _, _)
MergeFrom(analyses, order, i, remaining) ==
  IF i > Len(order) THEN <<>>
  ELSE
    LET group == SetupGroup(analyses, order[i])
        take == IF Len(group) < remaining THEN Len(group) ELSE remaining
    IN  SliceFirst(group, take)
        \o (IF remaining - take <= 0 THEN <<>>
            ELSE MergeFrom(analyses, order, i + 1, remaining - take))

\* finalPicks
FinalPicks(analyses, params) ==
  MergeFrom(analyses, priorityOrder(params), 1, ToInt(params.max_results))

\* a string-or-null || null
StrOrNull(x) == IF x = NullStr \/ x = "" THEN NullStr ELSE x
\* an optional boolean || null
TrueOrNull(x) == IF x = "true" THEN "true" ELSE NullStr
\* a number || null
NumOrNull(x) == IF Truthy(x) THEN x ELSE Null

\* the ClassifiedPick of one analysis
ToPick(analysis, params) ==
  LET ind == analysis.indicators
      lastCandle == LastCandle(Arr(analysis.candles))
      bbPosition ==
        IF ind.bbPercentB = Null THEN NullStr
        ELSE IF Lt(ind.bbPercentB, Num(1, 10)) THEN "lower_bounce"
        ELSE IF Gt(ind.bbPercentB, Num(9, 10)) THEN "upper_reject"
        ELSE "middle"
      stochPosition ==
        IF ind.stochK = Null THEN NullStr
        ELSE IF Lt(ind.stochK, params.stoch_oversold_threshold) THEN "oversold"
        ELSE IF Gt(ind.stochK, params.stoch_overbought_threshold) THEN "overbought"
        ELSE "neutral"
  IN  [ Ticker |-> analysis.ticker,
        Company |-> StrOrNull(analysis.meta.company),
        Price |-> lastCandle.c,
        MarketCap |-> NumOrNull(analysis.meta.marketCap),
        Volume |-> lastCandle.v,
        RelativeVolume |-> OrElse(ind.relVol, I(0)),
        RSI |-> OrElse(ind.rsi14, I(0)),
        Sector |-> StrOrNull(analysis.meta.sector),
        Trend |-> IF ind.trend = NullStr THEN "sideways" ELSE ind.trend,
        NextEarningsDate |-> analysis.meta.nextEarningsDate,
        SelectionReason |-> analysis.setupReason,
        \* Leo methodology fields
        CandlestickPattern |-> StrOrNull(ind.candlestickPattern),
        VolumeShift |-> StrOrNull(ind.volumeShift),
        VolumeShiftStrength |-> NumOrNull(ind.volumeShiftStrength),
        BBPosition |-> bbPosition,
        BBPercentB |-> NumOrNull(ind.bbPercentB),
        StochPosition |-> stochPosition,
        StochK |-> NumOrNull(ind.stochK),
        EarningsWarning |-> TrueOrNull(ind.earningsWithin30Days),
        PriceTargets |-> calculatePriceTargetsFromIndicators(Arr(analysis.candles), ind),
        EntryConfirmed |-> TrueOrNull(ind.entryConfirmed),
        ReversalTimeline |-> "3-5 candles" ]

\* what a call of runEngine that raised leaves: no EngineOutput.  processed
\* is the number of timeseries entries the loop had started on.
Thrown(message, processed) ==
  [ error |-> message, as_of_date |-> <<>>, picks |-> <<>>, scores |-> <<>>,
    analyses |-> <<>>, processed |-> processed ]

\* the EngineOutput built from finalPicks.  scores[i] is the internal score
\* of picks[i]; analyses lists the classified tickers in discovery order.
EngineOutput(params, loop, finalPicks) ==
  [ error |-> "none",
    as_of_date |-> params.as_of_date,
    picks |-> [k \in 1..Len(finalPicks) |-> ToPick(finalPicks[k], params)],
    scores |-> [k \in 1..Len(finalPicks) |-> finalPicks[k].score],
    analyses |-> [k \in 1..Len(loop.analyses) |->
                    [ticker |-> loop.analyses[k].ticker,
                     setupReason |-> loop.analyses[k].setupReason,
                     score |-> loop.analyses[k].score]],
    processed |-> loop.processed ]

\* runEngine once the loop has ended with loop: grouping, merge and output
SelectAndBuild(params, loop) ==
  IF loop.thrown
  THEN Thrown("TypeError: Cannot read properties of undefined", loop.processed)
  ELSE EngineOutput(params, loop, FinalPicks(loop.analyses, params))

\* runEngine after assertFixedFilters, validated being what validateParams yields
Screen(input, validated, now) ==
  IF validated.error # "none" THEN Thrown(validated.error, 0)
  ELSE SelectAndBuild(validated.params,
                      AnalyzeUpTo(input.timeseries, Len(input.timeseries), input.metadata,
                                  validated.params, now))

\* runEngine(input) called when the clock reads now.  error is "none" when
\* the call returns {as_of_date, picks}.
runEngine(input, now) ==
  IF assertFixedFilters # "none" THEN Thrown(assertFixedFilters, 0)
  ELSE Screen(input, validateParams(input.params), now)

(***************************************************************************)
(* The state machine: a caller holding one EngineInput calls runEngine on  *)
(* it, any number of times, while the clock advances.                      *)
(***************************************************************************)
VARIABLES
  engineInput,  \* the EngineInput {params, timeseries, metadata} the caller passes
  clock,        \* the clock (new Date()), in days
  output,       \* what the latest call of runEngine produced
  lastOutput,   \* what the call before it produced
  fnCall,       \* a direct call of one indicator function: {fn, series, arg}
  fnResult,     \* what that call returned
  wallClock,    \* Date.now() of the page that holds the data provider, in hours
  cacheStore,   \* DataCache.store: the entries in Map insertion order
  cacheStats,   \* DataCache.stats: {apiCallsToday, lastResetDate}
  storage,      \* localStorage: the items screener_cache and screener_cache_stats
  calls,        \* the getHistoricalData calls made so far, with their outcome
  batch,        \* the getBatchHistoricalData call of the page
  instance      \* how many times the page, and with it the DataCache, was re-created

providerVars == <<wallClock, cacheStore, cacheStats, storage, calls, batch, instance>>

vars == <<engineInput, clock, output, lastOutput, fnCall, fnResult, providerVars>>

\* no getBatchHistoricalData call is running
NoBatch == [pc |-> "idle", interval |-> "1day", toFetch |-> <<>>, i |-> 0, results |-> {}]

\* the provider right after new DataCache() on an empty localStorage at hour 0
FreshProvider ==
  /\ wallClock = 0
  /\ cacheStore = <<>>
  /\ cacheStats = [apiCallsToday |-> 0, lastResetDate |-> 0]
  /\ storage = [hasCache |-> FALSE, cache |-> <<>>, hasStats |-> FALSE,
                stats |-> [apiCallsToday |-> 0, lastResetDate |-> 0]]
  /\ calls = <<>>
  /\ batch = NoBatch
  /\ instance = 0

\* the indicator functions are called through runEngine only
NoFnCall == [fn |-> "none", series |-> <<>>, arg |-> 0]
NotCalled == [called |-> FALSE, value |-> Null]
Returned(value) == [called |-> TRUE, value |-> value]
IndicatorIdle == fnCall = NoFnCall /\ fnResult = NotCalled

\* last day the clock reaches
MaxDay == 2

\* a metadata map with no entry at all (input.metadata absent)
NoMetadata == [t \in {} |-> Null]

\* the short ticker lists the malformed params are run on
ProbeLists == { <<>>, <<"AAPL">>, <<"AAPL", "NVDA">>, <<"ACME", "AAPL">> }

Inputs ==
  { [params |-> p, timeseries |-> Timeseries(l), metadata |-> Metadata] :
      p \in ValidParams \cup LeoVariants \cup FilterVariants \cup UserVariants,
      l \in TickerLists }
  \cup { [params |-> p, timeseries |-> Timeseries(l), metadata |-> Metadata] :
           p \in MalformedParams, l \in ProbeLists }
  \cup { [params |-> DEFAULT_PARAMS, timeseries |-> Timeseries(l), metadata |-> NoMetadata] :
           l \in ProbeLists }

\* no call has been made
NoResult == Thrown("not called", 0)

Init ==
  /\ engineInput \in Inputs
  /\ clock = 0
  /\ output = NoResult
  /\ lastOutput = NoResult
  /\ IndicatorIdle
  /\ FreshProvider

\* the caller calls runEngine(input)
RunEngine ==
  /\ output' = runEngine(engineInput, clock)
  /\ lastOutput' = output
  /\ UNCHANGED <<engineInput, clock, fnCall, fnResult, providerVars>>

\* a day passes
Tick ==
  /\ clock < MaxDay
  /\ clock' = clock + 1
  /\ UNCHANGED <<engineInput, output, lastOutput, fnCall, fnResult, providerVars>>

Next == RunEngine \/ Tick

Spec == Init /\ [][Next]_vars

(***************************************************************************)
(* Properties of runEngine                                                 *)
(***************************************************************************)
\* the params runEngine works with: input.params merged over the defaults
MergedParams == MergeParams(engineInput.params)

\* params.max_results as a count
Cap == ToInt(MergedParams.max_results)

\* the tickers of a list of picks, in list order
PickTickers(picks) == [i \in 1..Len(picks) |-> picks[i].Ticker]

\* s without its k-th element
Without(s, k) == [i \in 1..(Len(s) - 1) |-> IF i < k THEN s[i] ELSE s[i + 1]]

\* C1: whenever runEngine returns, the output holds at most
\* params.max_results picks.
C1_PicksWithinCap ==
  output.error = "none" => Len(output.picks) <= Cap

\* a call that returned max_results picks out of more classified tickers
C1_CapReached ==
  /\ output.error = "none"
  /\ Len(output.picks) = Cap
  /\ Len(output.analyses) > Cap

\* the position of reason in the priority order
PriorityIndex(reason, order) == CHOOSE i \in 1..Len(order) : order[i] = reason

\* analysis j comes before analysis k in the concatenation of the groups:
\* a group of higher priority, or the same group and a higher score, or the
\* same group and score and an earlier discovery
ComesBefore(a, j, k, order) ==
  LET pj == PriorityIndex(a[j].setupReason, order)
      pk == PriorityIndex(a[k].setupReason, order)
  IN  \/ pj < pk
      \/ /\ pj = pk
         /\ \/ Gt(a[j].score, a[k].score)
            \/ a[j].score = a[k].score /\ j < k

\* C2: the picks are the first min(N, max_results) of the N classified
\* tickers taken group by group in the priority order, each group by
\* descending score and, for equal scores, in discovery order: the i-th pick
\* is the classified ticker that exactly i - 1 others come before.
C2_PicksArePriorityPrefix ==
  output.error = "none" =>
    LET a == output.analyses
        order == priorityOrder(MergedParams)
    IN  /\ Len(output.picks) = IF Len(a) < Cap THEN Len(a) ELSE Cap
        /\ \A i \in 1..Len(output.picks) :
             \E k \in 1..Len(a) :
               /\ a[k].ticker = output.picks[i].Ticker
               /\ a[k].setupReason = output.picks[i].SelectionReason
               /\ a[k].score = output.scores[i]
               /\ Cardinality({j \in 1..Len(a) : ComesBefore(a, j, k, order)}) = i - 1

\* a call where the cap cut the list, the first pick is not the first
\* ticker discovered, and a group of lower priority is left out entirely
C2_CapCutsLowerGroup ==
  /\ output.error = "none"
  /\ Len(output.picks) = Cap
  /\ Len(output.analyses) > Cap
  /\ output.picks[1].Ticker # output.analyses[1].ticker
  /\ \E k \in 1..Len(output.analyses) :
       \A i \in 1..Len(output.picks) :
         output.picks[i].SelectionReason # output.analyses[k].setupReason

\* the candles the input holds for ticker
InputCandles(ticker) ==
  LET ts == engineInput.timeseries
  IN  Arr(ts[CHOOSE k \in 1..Len(ts) : ts[k].ticker = ticker].candles)

\* the 20-bar average volume of candles
AverageVolume20(candles) ==
  LET last20 == SliceLast(candles, 20)
  IN  Div(Sum(Volumes(last20)), I(Len(last20)))

\* C3: no pick has a last close of exactly 30, a 20-bar average volume of
\* exactly 1,000,000 or a relative volume of exactly 1.0.
C3_BoundaryValuesExcluded ==
  output.error = "none" =>
    \A i \in 1..Len(output.picks) :
      LET candles == InputCandles(output.picks[i].Ticker)
      IN  /\ LastCandle(candles).c # I(30)
          /\ AverageVolume20(candles) # I(1000000)
          /\ Div(LastCandle(candles).v, AverageVolume20(candles)) # I(1)

\* ticker is a constituent of one of the selected indices
InSelectedIndices(ticker, indexFilters) ==
  \E i \in 1..Len(indexFilters) :
    /\ IndexKey(indexFilters[i]) # NullStr
    /\ ticker \in INDEX_CONSTITUENTS[IndexKey(indexFilters[i])]

\* the timeseries entry has metadata, enough candles, and passes every
\* filter stage: fixed, user, Leo (when Leo mode is on) and indicator
Qualifies(entry, metadata, params, now) ==
  /\ entry.ticker \in DOMAIN metadata
  /\ Len(Arr(entry.candles)) >= 250
  /\ passesFixedFilters(Arr(entry.candles), metadata[entry.ticker])
  /\ passesUserFilters(metadata[entry.ticker], params)
  /\ params.leo_mode_enabled =>
       /\ Ge(LastCandle(Arr(entry.candles)).c, params.min_price_leo)
       /\ Len(params.index_filters) > 0 =>
            InSelectedIndices(entry.ticker, params.index_filters)
  /\ passesIndicatorFilters(
       calculateIndicators(entry.candles, params, metadata[entry.ticker], now), params)

\* the final bar closes above the highest high of the 20 bars before it, on
\* a volume above 1.5 times the 20-bar average volume
BreakoutScenario(candles) ==
  LET n == Len(candles)
  IN  /\ n > 20
      /\ Gt(candles[n].c, MaxOf(Highs(SubSeq(candles, n - 20, n - 1))))
      /\ Gt(candles[n].v, Mul(Num(3, 2), AverageVolume20(candles)))

\* C4: with Leo mode off and otherwise default params, while the cap is not
\* exhausted, every ticker that passes all filters and is in the breakout
\* scenario is a pick with SelectionReason "Breakout".
C4_BreakoutScenarioIsBreakout ==
  ( /\ output.error = "none"
    /\ [MergedParams EXCEPT !.max_results = DEFAULT_PARAMS.max_results] = DEFAULT_PARAMS
    /\ Len(output.picks) < Cap ) =>
    \A k \in 1..Len(engineInput.timeseries) :
      LET entry == engineInput.timeseries[k]
      IN  ( /\ Qualifies(entry, engineInput.metadata, MergedParams, clock)
            /\ BreakoutScenario(Arr(entry.candles)) ) =>
            \E i \in 1..Len(output.picks) :
              /\ output.picks[i].Ticker = entry.ticker
              /\ output.picks[i].SelectionReason = "Breakout"

\* every element of s is in set
AllIn(s, set) == \A i \in 1..Len(s) : s[i] \in set

\* m is malformed: a date not in ISO form, a minimum above its maximum, a
\* bound outside its range, or a value outside its enumerated type
Malformed(m) ==
  \/ ~IsoDateRegex(m.as_of_date)
  \/ Gt(m.market_cap_min, m.market_cap_max)
  \/ Gt(m.rsi_min, m.rsi_max)
  \/ Gt(m.stoch_k_min, m.stoch_k_max)
  \/ \E f \in {"rsi_min", "rsi_max", "stoch_k_min", "stoch_k_max"} :
       Lt(m[f], I(0)) \/ Gt(m[f], I(100))
  \/ \E f \in {"trend_lookback", "max_results", "atr_lookback"} :
       Le(m[f], I(0)) \/ ~IsInteger(m[f])
  \/ Lt(m.sr_proximity_pct, I(0))
  \/ Lt(m.adx_min, I(0))
  \/ m.ma_cross \notin {"20>50", "50>200", "20>200", "none"}
  \/ m.trend_type \notin {"up", "down", "sideways", "*"}
  \/ m.fib_reference \notin {"swing_high_to_low", "swing_low_to_high"}
  \/ m.fib_zone \notin {"38.2-50", "50-61.8", "38.2-61.8", "extension-127", "extension-161.8", "*"}
  \/ m.timeframe \notin Timeframes
  \/ ~AllIn(m.candlestick_patterns, CandlestickPatterns)
  \/ ~AllIn(m.index_filters, IndexNames)

\* C5: a call with malformed params raises, and raises before the loop has
\* started on any ticker.
C5_MalformedParamsRejected ==
  (output # NoResult /\ Malformed(MergedParams)) =>
    (output.error # "none" /\ output.processed = 0)

\* the timeseries entry lacks metadata or candles, or fails a filter stage
Unqualified(entry, metadata, params, now) == ~Qualifies(entry, metadata, params, now)

\* C6: a ticker without metadata, with fewer than 250 candles or failing a
\* filter stage is no pick, and the call on the same input without it
\* raises whenever the call with it does and classifies the same tickers.
C6_SoftExclusion ==
  (output # NoResult /\ validateParams(engineInput.params).error = "none") =>
    \A k \in 1..Len(engineInput.timeseries) :
      LET entry == engineInput.timeseries[k]
          without == runEngine([engineInput EXCEPT !.timeseries = Without(@, k)], clock)
      IN  Unqualified(entry, engineInput.metadata, MergedParams, clock) =>
            /\ ~Includes(PickTickers(output.picks), entry.ticker)
            /\ output.error # "none" => without.error # "none"
            /\ output.error = "none" => without.analyses = output.analyses

\* C7: two picks with the same SelectionReason have every pick between them
\* of that reason too, and the earlier one has the greater or equal score.
C7_GroupsContiguousAndSorted ==
  output.error = "none" =>
    \A i, j \in 1..Len(output.picks) :
      (i < j /\ output.picks[i].SelectionReason = output.picks[j].SelectionReason) =>
        /\ Ge(output.scores[i], output.scores[j])
        /\ \A k \in i..j :
             output.picks[k].SelectionReason = output.picks[i].SelectionReason

\* the position of ticker in the discovery order
Discovered(ticker) ==
  CHOOSE k \in 1..Len(output.analyses) : output.analyses[k].ticker = ticker

\* a call whose picks hold two of one reason, the higher score first though
\* discovered later, beside a pick of another reason
C7_SortedGroupBesideAnother ==
  /\ output.error = "none"
  /\ \E i, j \in 1..Len(output.picks) :
       /\ i < j
       /\ output.picks[i].SelectionReason = output.picks[j].SelectionReason
       /\ Gt(output.scores[i], output.scores[j])
       /\ Discovered(output.picks[i].Ticker) > Discovered(output.picks[j].Ticker)
  /\ \E i \in 1..Len(output.picks) :
       output.picks[i].SelectionReason # output.picks[1].SelectionReason

\* C8: two calls on the same input return the same output, whenever each is made.
C8_SameInputSameOutput ==
  (output # NoResult /\ lastOutput # NoResult) => output = lastOutput

\* no element of s occurs twice
Distinct(s) == \A i, j \in 1..Len(s) : s[i] = s[j] => i = j

\* C9: in an output every ticker is picked at most once and classified at
\* most once, and a second call on the same input gives every ticker the
\* reason and the score the first call gave it.
C9_OneReasonPerTicker ==
  output.error = "none" =>
    /\ Distinct(PickTickers(output.picks))
    /\ Distinct([k \in 1..Len(output.analyses) |-> output.analyses[k].ticker])
    /\ lastOutput.error = "none" => output.analyses = lastOutput.analyses

\* two calls, on different days, that returned several picks and outputs
\* that differ
C9_ClassifiedTwice ==
  /\ output.error = "none"
  /\ lastOutput.error = "none"
  /\ Len(output.picks) >= 2
  /\ output # lastOutput

\* the Leo accumulation case: a hammer in the allow-list, %B below 0.2, %K
\* below the oversold threshold, a buyer volume shift of strength above 30
LeoAccumulationCase(indicators, params) ==
  /\ indicators.candlestickPattern = "hammer"
  /\ Includes(params.candlestick_patterns, "hammer")
  /\ indicators.bbPercentB # Null
  /\ Lt(indicators.bbPercentB, Num(2, 10))
  /\ indicators.stochK # Null
  /\ Lt(indicators.stochK, params.stoch_oversold_threshold)
  /\ indicators.volumeShift = "buyer"
  /\ Gt(indicators.volumeShiftStrength, I(30))

\* C10: with Leo mode on, every ticker that passes the filters and is in the
\* Leo accumulation case is classified "Reversal_Accumulation".
C10_AccumulationClassified ==
  (output.error = "none" /\ MergedParams.leo_mode_enabled) =>
    \A k \in 1..Len(engineInput.timeseries) :
      LET entry == engineInput.timeseries[k]
      IN  ( /\ Qualifies(entry, engineInput.metadata, MergedParams, clock)
            /\ LeoAccumulationCase(
                 calculateIndicators(entry.candles, MergedParams,
                                     engineInput.metadata[entry.ticker], clock),
                 MergedParams) ) =>
            \E j \in 1..Len(output.analyses) :
              /\ output.analyses[j].ticker = entry.ticker
              /\ output.analyses[j].setupReason = "Reversal_Accumulation"

\* a call in Leo mode that classified as "Reversal_Accumulation" a ticker in
\* the accumulation case that the standard classification would label too,
\* with %K below 20 and the Bollinger bounce enabled
C10_AccumulationOverOthers ==
  /\ output.error = "none"
  /\ MergedParams.leo_mode_enabled
  /\ MergedParams.bb_bounce_enabled
  /\ \E k \in 1..Len(engineInput.timeseries) :
       LET entry == engineInput.timeseries[k]
           indicators == calculateIndicators(entry.candles, MergedParams,
                                             engineInput.metadata[entry.ticker], clock)
       IN  /\ Qualifies(entry, engineInput.metadata, MergedParams, clock)
           /\ LeoAccumulationCase(indicators, MergedParams)
           /\ Lt(indicators.stochK, I(20))
           /\ classifyStandard(Arr(entry.candles), indicators) # NoSetup
           /\ \E j \in 1..Len(output.analyses) :
                /\ output.analyses[j].ticker = entry.ticker
                /\ output.analyses[j].setupReason = "Reversal_Accumulation"

\* the entry has metadata and at least minBars candles, and its last close,
\* 20-bar average volume and relative volume are each above the fixed limit
MeetsFixedFilters(entry, metadata) ==
  LET candles == Arr(entry.candles)
  IN  /\ entry.ticker \in DOMAIN metadata
      /\ Len(candles) >= FIXED_FILTERS.minBars
      /\ Gt(LastCandle(candles).c, FIXED_FILTERS.minPrice)
      /\ Gt(AverageVolume20(candles), FIXED_FILTERS.minAvgVol20)
      /\ Gt(Div(LastCandle(candles).v, AverageVolume20(candles)), FIXED_FILTERS.minRelativeVol)

\* C11: a call with params that validateParams accepts and a timeseries in
\* which no ticker meets the fixed filters returns no pick, and every call
\* that returns gives as_of_date the value of params.as_of_date.
C11_EmptyUniverse ==
  /\ output.error = "none" => output.as_of_date = MergedParams.as_of_date
  /\ ( /\ output # NoResult
       /\ validateParams(engineInput.params).error = "none"
       /\ \A k \in 1..Len(engineInput.timeseries) :
            ~MeetsFixedFilters(engineInput.timeseries[k], engineInput.metadata) ) =>
       (output.error = "none" /\ output.picks = <<>>)

\* C12: with Leo mode off, every pick has no candlestick pattern, volume
\* shift, Bollinger position, stochastic position, entry confirmation or
\* earnings warning, and no price target.
C12_LeoFieldsOnlyInLeoMode ==
  (output.error = "none" /\ ~MergedParams.leo_mode_enabled) =>
    \A i \in 1..Len(output.picks) :
      /\ output.picks[i].CandlestickPattern = NullStr
      /\ output.picks[i].VolumeShift = NullStr
      /\ output.picks[i].BBPosition = NullStr
      /\ output.picks[i].StochPosition = NullStr
      /\ output.picks[i].EntryConfirmed = NullStr
      /\ output.picks[i].EarningsWarning = NullStr
      /\ output.picks[i].PriceTargets = <<>>

\* the six reasons of the Leo methodology, and the six standard ones
LeoReasons ==
  {"Reversal_Accumulation", "Reversal_Distribution", "BB_Lower_Bounce", "BB_Upper_Reject",
   "Stoch_Oversold_Reversal", "Stoch_Overbought_Reversal"}
StandardReasons == SetupReasons \ LeoReasons

\* order lists every SetupReason exactly once
ListsEveryReasonOnce(order) ==
  /\ Len(order) = Cardinality(SetupReasons)
  /\ \A r \in SetupReasons : \E i \in 1..Len(order) : order[i] = r

\* C13: the priority order of the call and that of the opposite Leo mode
\* each list every SetupReason once, the Leo block first with Leo mode on
\* and the standard block first with it off, and any two reasons of one
\* block stand in the same order in both.
C13_OrdersSwapBlocks ==
  LET on == priorityOrder([MergedParams EXCEPT !.leo_mode_enabled = TRUE])
      off == priorityOrder([MergedParams EXCEPT !.leo_mode_enabled = FALSE])
  IN  /\ ListsEveryReasonOnce(on)
      /\ ListsEveryReasonOnce(off)
      /\ \A i \in 1..Cardinality(LeoReasons) : on[i] \in LeoReasons
      /\ \A i \in 1..Cardinality(StandardReasons) : off[i] \in StandardReasons
      /\ \A block \in {LeoReasons, StandardReasons} :
           \A a, b \in block :
             PriorityIndex(a, on) < PriorityIndex(b, on)
               <=> PriorityIndex(a, off) < PriorityIndex(b, off)

\* the indicators runEngine computes for the entry in the current call
EntryIndicators(entry) ==
  calculateIndicators(entry.candles, MergedParams, engineInput.metadata[entry.ticker], clock)

\* the order in which standard classification tries its predicates
StandardOrder ==
  << "Breakout", "Momentum", "Fib Pullback", "Pullback", "Consolidation", "Reversal" >>

\* the standard predicate of reason holds
StandardPredicate(reason, candles, indicators) ==
  CASE reason = "Breakout" -> isBreakout(candles, indicators)
    [] reason = "Momentum" -> isMomentum(candles, indicators)
    [] reason = "Fib Pullback" -> indicators.fibHit /\ indicators.reactionBullish
    [] reason = "Pullback" -> isPullback(candles, indicators)
    [] reason = "Consolidation" -> isConsolidation(candles, indicators)
    [] reason = "Reversal" -> isReversal(candles, indicators)

\* the positions in StandardOrder of the predicates that hold
Holding(candles, indicators) ==
  {i \in 1..Len(StandardOrder) : StandardPredicate(StandardOrder[i], candles, indicators)}

\* the least element of a non-empty set of numbers
Least(set) == CHOOSE i \in set : \A j \in set : i <= j

\* the reason under which ticker was classified, NullStr when it was not
ReasonOf(ticker) ==
  IF \E j \in 1..Len(output.analyses) : output.analyses[j].ticker = ticker
  THEN output.analyses[Discovered(ticker)].setupReason
  ELSE NullStr

\* standard classification decides for the entry: Leo mode is off, or no
\* Leo predicate fires
StandardDecides(entry) ==
  \/ ~MergedParams.leo_mode_enabled
  \/ classifyLeoReversal(Arr(entry.candles), EntryIndicators(entry), MergedParams) = NoSetup

\* C14: a ticker that passes the filters and is left to standard
\* classification gets the reason of the first predicate of StandardOrder
\* that holds, is not classified when none holds, and is never labelled
\* "Pullback" when the Fib Pullback predicate holds too.
C14_FirstStandardPredicate ==
  output.error = "none" =>
    \A k \in 1..Len(engineInput.timeseries) :
      LET entry == engineInput.timeseries[k]
      IN  ( /\ Qualifies(entry, engineInput.metadata, MergedParams, clock)
            /\ StandardDecides(entry) ) =>
            LET holding == Holding(Arr(entry.candles), EntryIndicators(entry))
            IN  /\ holding = {} => ReasonOf(entry.ticker) = NullStr
                /\ holding # {} => ReasonOf(entry.ticker) = StandardOrder[Least(holding)]
                /\ {3, 4} \subseteq holding => ReasonOf(entry.ticker) # "Pullback"

\* a call with Leo mode off that labelled "Fib Pullback" a ticker for which
\* the Pullback predicate holds too, labelled another by the first of
\* several predicates that hold, and left out one for which none holds
C14_FibBeforePullback ==
  /\ output.error = "none"
  /\ ~MergedParams.leo_mode_enabled
  /\ \E k1, k2, k3 \in 1..Len(engineInput.timeseries) :
       LET e1 == engineInput.timeseries[k1]
           e2 == engineInput.timeseries[k2]
           e3 == engineInput.timeseries[k3]
       IN  /\ \A e \in {e1, e2, e3} : Qualifies(e, engineInput.metadata, MergedParams, clock)
           /\ {3, 4} \subseteq Holding(Arr(e1.candles), EntryIndicators(e1))
           /\ ReasonOf(e1.ticker) = "Fib Pullback"
           /\ Cardinality(Holding(Arr(e2.candles), EntryIndicators(e2))) > 1
           /\ ReasonOf(e2.ticker) = "Momentum"
           /\ Holding(Arr(e3.candles), EntryIndicators(e3)) = {}
           /\ ReasonOf(e3.ticker) = NullStr

\* the score under which ticker was classified
ScoreOf(ticker) == output.analyses[Discovered(ticker)].score

\* what the Leo predicates give for the entry, NoSetup when none fires
LeoResult(entry) ==
  classifyLeoReversal(Arr(entry.candles), EntryIndicators(entry), MergedParams)

\* what standard classification gives for the entry's candles and indicators
StandardResult(entry) == classifyStandard(Arr(entry.candles), EntryIndicators(entry))

\* C15: in Leo mode a ticker that passes the filters gets the reason and
\* score of standard classification when no Leo predicate fires, and the
\* Leo reason and score when one fires; with Leo mode off no pick has a Leo
\* reason.
C15_LeoFallsThroughToStandard ==
  output.error = "none" =>
    /\ ~MergedParams.leo_mode_enabled =>
         \A i \in 1..Len(output.picks) : output.picks[i].SelectionReason \notin LeoReasons
    /\ MergedParams.leo_mode_enabled =>
         \A k \in 1..Len(engineInput.timeseries) :
           LET entry == engineInput.timeseries[k]
               expected == IF LeoResult(entry) # NoSetup THEN LeoResult(entry)
                           ELSE StandardResult(entry)
           IN  Qualifies(entry, engineInput.metadata, MergedParams, clock) =>
                 /\ LeoResult(entry) # NoSetup => LeoResult(entry).reason \in LeoReasons
                 /\ expected = NoSetup => ReasonOf(entry.ticker) = NullStr
                 /\ expected # NoSetup =>
                      /\ ReasonOf(entry.ticker) = expected.reason
                      /\ ScoreOf(entry.ticker) = expected.score

\* a call in Leo mode that gave one ticker, for which no Leo predicate
\* fires, its standard reason, and another, for which a standard predicate
\* holds too, its Leo reason
C15_StandardBesideLeo ==
  /\ output.error = "none"
  /\ MergedParams.leo_mode_enabled
  /\ \E k1, k2 \in 1..Len(engineInput.timeseries) :
       LET e1 == engineInput.timeseries[k1]
           e2 == engineInput.timeseries[k2]
       IN  /\ Qualifies(e1, engineInput.metadata, MergedParams, clock)
           /\ Qualifies(e2, engineInput.metadata, MergedParams, clock)
           /\ LeoResult(e1) = NoSetup
           /\ ReasonOf(e1.ticker) \in StandardReasons
           /\ LeoResult(e2) # NoSetup
           /\ StandardResult(e2) # NoSetup
           /\ ReasonOf(e2.ticker) \in LeoReasons

\* the Leo reasons that rest on the candlestick pattern
PatternReasons ==
  {"Reversal_Accumulation", "BB_Lower_Bounce", "Reversal_Distribution", "BB_Upper_Reject"}

\* the candlestick pattern runEngine detects for ticker in the current call
DetectedPattern(ticker) ==
  LET ts == engineInput.timeseries
  IN  EntryIndicators(ts[CHOOSE k \in 1..Len(ts) : ts[k].ticker = ticker]).candlestickPattern

\* C16 as stated: a ticker is classified under a pattern-based Leo reason
\* only when its detected candlestick pattern is in
\* params.candlestick_patterns.
C16_PatternInAllowList ==
  output.error = "none" =>
    \A j \in 1..Len(output.analyses) :
      output.analyses[j].setupReason \in PatternReasons =>
        Includes(MergedParams.candlestick_patterns, DetectedPattern(output.analyses[j].ticker))

\* C16: a ticker is classified under a pattern-based Leo reason only when
\* its detected candlestick pattern is in params.candlestick_patterns or
\* that list is empty.
C16_PatternInAllowListOrListEmpty ==
  output.error = "none" =>
    \A j \in 1..Len(output.analyses) :
      output.analyses[j].setupReason \in PatternReasons =>
        \/ Includes(MergedParams.candlestick_patterns, DetectedPattern(output.analyses[j].ticker))
        \/ MergedParams.candlestick_patterns = <<>>

\* a call with a non-empty allow-list that classified a ticker under a
\* pattern-based reason, its detected pattern being in the list
C16_PatternReasonAssigned ==
  /\ output.error = "none"
  /\ MergedParams.candlestick_patterns # <<>>
  /\ \E j \in 1..Len(output.analyses) :
       /\ output.analyses[j].setupReason \in PatternReasons
       /\ Includes(MergedParams.candlestick_patterns, DetectedPattern(output.analyses[j].ticker))

\* the bullish reversal zone: %B below 0.2 and %K below the oversold threshold
BullishZone(indicators, params) ==
  /\ indicators.bbPercentB # Null
  /\ Lt(indicators.bbPercentB, Num(2, 10))
  /\ indicators.stochK # Null
  /\ Lt(indicators.stochK, params.stoch_oversold_threshold)

\* a bullish pattern that the allow-list admits
BullishPatternAdmitted(indicators, params) ==
  /\ indicators.candlestickPattern \in {"doji", "hammer", "long_lower_shadow", "engulfing_bullish"}
  /\ patternMatches(indicators.candlestickPattern, params)

\* the conditions of Reversal_Accumulation inside the zone
AccumulationHolds(indicators, params) ==
  /\ BullishPatternAdmitted(indicators, params)
  /\ indicators.volumeShift = "buyer"
  /\ params.require_volume_shift => Gt(indicators.volumeShiftStrength, I(30))

\* the conditions of BB_Lower_Bounce inside the zone
BounceHolds(indicators, params) ==
  BullishPatternAdmitted(indicators, params) /\ params.bb_bounce_enabled

\* C17: in Leo mode a ticker that passes the filters and lies in the bullish
\* reversal zone is classified Reversal_Accumulation when its conditions
\* hold, else BB_Lower_Bounce when its conditions hold, else
\* Stoch_Oversold_Reversal when %K is below 20, whatever its pattern, and
\* under none of the three otherwise.
C17_BullishZonePrecedence ==
  (output.error = "none" /\ MergedParams.leo_mode_enabled) =>
    \A k \in 1..Len(engineInput.timeseries) :
      LET entry == engineInput.timeseries[k]
          ind == EntryIndicators(entry)
          reason == ReasonOf(entry.ticker)
      IN  ( /\ Qualifies(entry, engineInput.metadata, MergedParams, clock)
            /\ BullishZone(ind, MergedParams) ) =>
            IF AccumulationHolds(ind, MergedParams) THEN reason = "Reversal_Accumulation"
            ELSE IF BounceHolds(ind, MergedParams) THEN reason = "BB_Lower_Bounce"
            ELSE IF Lt(ind.stochK, I(20)) THEN reason = "Stoch_Oversold_Reversal"
            ELSE reason \notin {"Reversal_Accumulation", "BB_Lower_Bounce",
                                "Stoch_Oversold_Reversal"}

\* a call in Leo mode, the Bollinger bounce disabled, that classified under
\* Stoch_Oversold_Reversal one ticker with an admitted bullish pattern and
\* one with no pattern, and under Reversal_Accumulation a third
C17_OversoldAfterBounce ==
  /\ output.error = "none"
  /\ MergedParams.leo_mode_enabled
  /\ \E k1, k2, k3 \in 1..Len(engineInput.timeseries) :
       LET e1 == engineInput.timeseries[k1]
           e2 == engineInput.timeseries[k2]
           e3 == engineInput.timeseries[k3]
       IN  /\ \A e \in {e1, e2, e3} :
                /\ Qualifies(e, engineInput.metadata, MergedParams, clock)
                /\ BullishZone(EntryIndicators(e), MergedParams)
           /\ BullishPatternAdmitted(EntryIndicators(e1), MergedParams)
           /\ ReasonOf(e1.ticker) = "Stoch_Oversold_Reversal"
           /\ EntryIndicators(e2).candlestickPattern = "none"
           /\ ReasonOf(e2.ticker) = "Stoch_Oversold_Reversal"
           /\ ReasonOf(e3.ticker) = "Reversal_Accumulation"

\* the timeseries entry of ticker
EntryOf(ticker) ==
  LET ts == engineInput.timeseries
  IN  ts[CHOOSE k \in 1..Len(ts) : ts[k].ticker = ticker]

\* the simple moving average of the last n closes of ticker
ClosesAverage(ticker, n) == sma(Closes(InputCandles(ticker)), n)

\* the SMA ordering that cross requests holds strictly for ticker
CrossHolds(cross, ticker) ==
  CASE cross = "20>50" -> Gt(ClosesAverage(ticker, 20), ClosesAverage(ticker, 50))
    [] cross = "50>200" -> Gt(ClosesAverage(ticker, 50), ClosesAverage(ticker, 200))
    [] cross = "20>200" -> Gt(ClosesAverage(ticker, 20), ClosesAverage(ticker, 200))
    [] OTHER -> TRUE

\* x lies in [lo, hi]
Within(x, lo, hi) == x # Null /\ Ge(x, lo) /\ Le(x, hi)

\* C18: every pick has its RSI within [rsi_min, rsi_max], an ADX of at least
\* adx_min, the requested trend unless trend_type is "*", the requested
\* SMA ordering holding strictly, a support/resistance distance of at most
\* sr_proximity_pct and, with Leo mode off, its %K within
\* [stoch_k_min, stoch_k_max].
C18_PicksPassIndicatorFilters ==
  output.error = "none" =>
    \A i \in 1..Len(output.picks) :
      LET pick == output.picks[i]
          ind == EntryIndicators(EntryOf(pick.Ticker))
      IN  /\ Within(pick.RSI, MergedParams.rsi_min, MergedParams.rsi_max)
          /\ ind.adx14 # Null /\ Ge(ind.adx14, MergedParams.adx_min)
          /\ MergedParams.trend_type # "*" => pick.Trend = MergedParams.trend_type
          /\ CrossHolds(MergedParams.ma_cross, pick.Ticker)
          /\ Le(ind.srDistancePct, MergedParams.sr_proximity_pct)
          /\ ~MergedParams.leo_mode_enabled =>
               Within(ind.stochK, MergedParams.stoch_k_min, MergedParams.stoch_k_max)

\* a call in Leo mode that returned a pick whose %K is outside
\* [stoch_k_min, stoch_k_max] and left out a ticker that passes the fixed and
\* user filters but lies further from support and resistance than
\* sr_proximity_pct
C18_StochasticBoundsIgnoredInLeoMode ==
  /\ output.error = "none"
  /\ MergedParams.leo_mode_enabled
  /\ \E i \in 1..Len(output.picks) :
       ~Within(EntryIndicators(EntryOf(output.picks[i].Ticker)).stochK,
               MergedParams.stoch_k_min, MergedParams.stoch_k_max)
  /\ \E k \in 1..Len(engineInput.timeseries) :
       LET entry == engineInput.timeseries[k]
       IN  /\ MeetsFixedFilters(entry, engineInput.metadata)
           /\ passesUserFilters(engineInput.metadata[entry.ticker], MergedParams)
           /\ Gt(EntryIndicators(entry).srDistancePct, MergedParams.sr_proximity_pct)
           /\ ~Includes(PickTickers(output.picks), entry.ticker)

\* the metadata record of a pick's ticker
MetaOf(pick) == engineInput.metadata[pick.Ticker]

\* C19: every pick's ticker has a metadata market cap that lies within
\* [market_cap_min, market_cap_max], the sector user_sector unless that is
\* "*" and the industry user_industry unless that is "*"; a ticker whose
\* market cap is null is no pick.
C19_PicksPassUserFilters ==
  output.error = "none" =>
    \A i \in 1..Len(output.picks) :
      LET meta == MetaOf(output.picks[i])
      IN  /\ Within(meta.marketCap, MergedParams.market_cap_min, MergedParams.market_cap_max)
          /\ MergedParams.user_sector # "*" => meta.sector = MergedParams.user_sector
          /\ MergedParams.user_industry # "*" => meta.industry = MergedParams.user_industry

\* the swing highs detected in the candles of a pick's ticker that lie
\* above its last close, oldest first
SwingHighsAbove(pick) ==
  LET candles == InputCandles(pick.Ticker)
      above(high) == Gt(high.price, LastCandle(candles).c)
  IN  SelectSeq(detectSwingPoints(candles, 3).highs, above)

\* the swing targets collected for a pick, in the order they are pushed
SwingTargets(pick) ==
  LET isSwing(target) == target.type = "swing"
  IN  SelectSeq(CollectedTargets(InputCandles(pick.Ticker), EntryIndicators(EntryOf(pick.Ticker))),
                isSwing)

\* C20: in Leo mode, for every pick with at least three detected swing highs
\* above its last close, three swing targets are collected, and they are the
\* three most recent of those swing highs.
C20_ThreeMostRecentSwingHighsAbove ==
  (output.error = "none" /\ MergedParams.leo_mode_enabled) =>
    \A i \in 1..Len(output.picks) :
      LET above == SwingHighsAbove(output.picks[i])
          swings == SwingTargets(output.picks[i])
      IN  Len(above) >= 3 =>
            /\ Len(swings) = 3
            /\ \A k \in 1..3 :
                 /\ swings[k].price = SliceLast(above, 3)[k].price
                 /\ swings[k].date = SliceLast(above, 3)[k].date

\* the targets collected for a pick before the sort and the cap
CollectedFor(pick) ==
  CollectedTargets(InputCandles(pick.Ticker), EntryIndicators(EntryOf(pick.Ticker)))

\* target is the midpoint of an unfilled zone of the pick's ticker that lies
\* on the side of the last close its type requires
FromUnfilledZone(target, pick) ==
  LET zones == EntryIndicators(EntryOf(pick.Ticker)).fvgZones
      currentPrice == LastCandle(InputCandles(pick.Ticker)).c
  IN  \E z \in 1..Len(zones) :
        /\ ~zones[z].isFilled
        /\ zones[z].midpoint = target.price
        /\ \/ zones[z].type = "bullish" /\ Gt(zones[z].midpoint, currentPrice)
           \/ zones[z].type = "bearish" /\ Lt(zones[z].midpoint, currentPrice)

\* C21: the price targets of every pick are in ascending order of price and
\* at most 5; they are collected targets, as many as were collected up to 5,
\* no collected target left out is cheaper than a kept one, and every FVG
\* target is the midpoint of an unfilled zone, bullish above the last close
\* or bearish below it.
C21_TargetsSortedCappedUnfilled ==
  output.error = "none" =>
    \A i \in 1..Len(output.picks) :
      LET pick == output.picks[i]
          targets == pick.PriceTargets
          collected == CollectedFor(pick)
      IN  /\ Len(targets) <= 5
          /\ Len(targets) = IF Len(collected) > 5 THEN 5 ELSE Len(collected)
          /\ \A k \in 1..(Len(targets) - 1) : Le(targets[k].price, targets[k + 1].price)
          /\ \A k \in 1..Len(targets) : \E c \in 1..Len(collected) : collected[c] = targets[k]
          /\ \A c \in 1..Len(collected) :
               (\A k \in 1..Len(targets) : targets[k] # collected[c])
                 => Ge(collected[c].price, targets[Len(targets)].price)
          /\ \A k \in 1..Len(targets) :
               targets[k].type = "fvg" => FromUnfilledZone(targets[k], pick)

\* a call that returned a pick for which more than 5 targets were collected,
\* FVG targets among them, 5 of which were kept, and whose ticker has a
\* filled zone as well
C21_MoreThanFiveCollected ==
  /\ output.error = "none"
  /\ \E i \in 1..Len(output.picks) :
       LET collected == CollectedFor(output.picks[i])
       IN  /\ Len(collected) > 5
           /\ \E c \in 1..Len(collected) : collected[c].type = "fvg"
           /\ Len(output.picks[i].PriceTargets) = 5
           /\ \E zone \in 1..Len(EntryIndicators(EntryOf(output.picks[i].Ticker)).fvgZones) :
                EntryIndicators(EntryOf(output.picks[i].Ticker)).fvgZones[zone].isFilled

(***************************************************************************)
(* The indicator functions called directly: a caller passes one candle     *)
(* window to detectCandlestickPattern, analyzeVolumeShift, rsi or          *)
(* stochasticK and keeps the result.                                       *)
(***************************************************************************)
\* the prices of the last candle range over 100..100 + PriceSteps
PriceSteps == 4
PriceLevels == { 100 + d : d \in 0..PriceSteps }

\* the candle before the last one, by <<open, close>>
PreviousCandles ==
  { K(1, b[1], IF b[1] > b[2] THEN b[1] ELSE b[2], IF b[1] > b[2] THEN b[2] ELSE b[1], b[2], 1) :
      b \in { <<100, 104>>, <<104, 100>>, <<101, 102>>, <<102, 101>>, <<102, 102>> } }

\* every last candle over PriceLevels with l <= o, c <= h
CurrentCandles ==
  { K(2, o, h, l, c, 1) :
      <<o, h, l, c>> \in { q \in PriceLevels \X PriceLevels \X PriceLevels \X PriceLevels :
                            q[3] <= q[1] /\ q[3] <= q[4] /\ q[1] <= q[2] /\ q[4] <= q[2] } }

\* ATR values: absent, zero, and values a tenth of which lies below, between
\* and above the body sizes
AtrValues == { Null, I(0), I(1), I(5), I(25) }

PatternCalls ==
  { [fn |-> "detectCandlestickPattern", series |-> <<previous, current>>, arg |-> a] :
      previous \in PreviousCandles, current \in CurrentCandles, a \in AtrValues }
  \cup { [fn |-> "detectCandlestickPattern", series |-> <<current>>, arg |-> I(5)] :
           current \in PreviousCandles }

\* a bar of the volume window, by <<close - open, volume>>
VolumeBars == { <<1, 1>>, <<1, 3>>, <<-1, 1>>, <<-1, 2>>, <<0, 2>>, <<0, 0>> }

\* the lookback analyzeVolumeShift is called with
VolumeLookback == 5

VolumeWindow(bars) ==
  [k \in 1..Len(bars) |-> K(k, 100, 101, 99, 100 + bars[k][1], bars[k][2])]

VolumeCalls ==
  { [fn |-> "analyzeVolumeShift", series |-> VolumeWindow(bars), arg |-> VolumeLookback] :
      bars \in [1..VolumeLookback -> VolumeBars] }
  \cup { [fn |-> "analyzeVolumeShift", series |-> VolumeWindow(<<bar>>), arg |-> VolumeLookback] :
           bar \in VolumeBars }

\* the period rsi and stochasticK are called with
OscillatorPeriod == 14

\* closes flat at 100 for the first flat of them, then moving by step a bar,
\* every third bar by -step when zigzag
ClosesWindow(n, flat, step, zigzag) ==
  [i \in 1..n |->
     IF i <= flat THEN I(100)
     ELSE I(100 + step * (i - flat) - (IF zigzag /\ i % 3 = 0 THEN 2 * step ELSE 0))]

RsiCalls ==
  { [fn |-> "rsi", series |-> ClosesWindow(n, flat, step, zigzag), arg |-> OscillatorPeriod] :
      n \in {OscillatorPeriod, OscillatorPeriod + 1, OscillatorPeriod + 3},
      flat \in {1, 2, 7, OscillatorPeriod + 3}, step \in {-1, 0, 1, 2}, zigzag \in BOOLEAN }

\* candles flat at price, the bar at position peak reaching up and down from it
RangeWindow(n, price, peak, up, down) ==
  [i \in 1..n |->
     IF i = peak THEN K(i, price, price + up, price - down, price, 1)
     ELSE K(i, price, price, price, price, 1)]

StochasticCalls ==
  { [fn |-> "stochasticK", series |-> RangeWindow(n, price, peak, up, down),
     arg |-> OscillatorPeriod] :
      n \in {OscillatorPeriod - 1, OscillatorPeriod, OscillatorPeriod + 2},
      price \in {50, 100}, peak \in {1, 2, 3, OscillatorPeriod}, up \in 0..2, down \in 0..2 }

\* only the engine's variables at rest
EngineIdle ==
  /\ engineInput = [params |-> DEFAULT_PARAMS, timeseries |-> <<>>, metadata |-> NoMetadata]
  /\ clock = 0
  /\ output = NoResult
  /\ lastOutput = NoResult

IndicatorInit ==
  /\ \/ fnCall \in PatternCalls
     \/ fnCall \in VolumeCalls
     \/ fnCall \in RsiCalls
     \/ fnCall \in StochasticCalls
  /\ fnResult = NotCalled
  /\ EngineIdle
  /\ FreshProvider

CallDetectCandlestickPattern ==
  /\ fnCall.fn = "detectCandlestickPattern"
  /\ fnResult' = Returned(detectCandlestickPattern(fnCall.series, fnCall.arg))
  /\ UNCHANGED <<engineInput, clock, output, lastOutput, fnCall, providerVars>>

CallAnalyzeVolumeShift ==
  /\ fnCall.fn = "analyzeVolumeShift"
  /\ fnResult' = Returned(analyzeVolumeShift(fnCall.series, fnCall.arg))
  /\ UNCHANGED <<engineInput, clock, output, lastOutput, fnCall, providerVars>>

CallRsi ==
  /\ fnCall.fn = "rsi"
  /\ fnResult' = Returned(rsi(fnCall.series, fnCall.arg))
  /\ UNCHANGED <<engineInput, clock, output, lastOutput, fnCall, providerVars>>

CallStochasticK ==
  /\ fnCall.fn = "stochasticK"
  /\ fnResult' = Returned(stochasticK(fnCall.series, fnCall.arg, 3))
  /\ UNCHANGED <<engineInput, clock, output, lastOutput, fnCall, providerVars>>

IndicatorNext ==
  CallDetectCandlestickPattern \/ CallAnalyzeVolumeShift \/ CallRsi \/ CallStochasticK

IndicatorSpec == IndicatorInit /\ [][IndicatorNext]_vars

\* the sizes of the parts of a candle
BodyOf(candle) == Abs(Sub(candle.c, candle.o))
RangeOf(candle) == Sub(candle.h, candle.l)
UpperShadowOf(candle) == Sub(candle.h, Max2(candle.o, candle.c))
LowerShadowOf(candle) == Sub(Min2(candle.o, candle.c), candle.l)

\* a body below 10% of the ATR in a candle of non-zero range
SmallBody(candle, atrValue) ==
  Lt(BodyOf(candle), Mul(atrValue, Num(1, 10))) /\ Gt(RangeOf(candle), I(0))

\* the condition under which each label is given, taken by itself
PatternShape(label, previous, current, atrValue) ==
  CASE label = "gravestone_doji" ->
         /\ SmallBody(current, atrValue)
         /\ Ge(UpperShadowOf(current), Mul(BodyOf(current), I(2)))
         /\ Lt(LowerShadowOf(current), Div(BodyOf(current), I(2)))
    [] label = "doji" -> SmallBody(current, atrValue)
    [] label = "hammer" ->
         /\ Ge(LowerShadowOf(current), Mul(BodyOf(current), I(2)))
         /\ Lt(UpperShadowOf(current), Div(BodyOf(current), I(2)))
         /\ Gt(current.c, current.o)
    [] label = "long_lower_shadow" ->
         /\ Gt(RangeOf(current), I(0))
         /\ Gt(LowerShadowOf(current), Mul(RangeOf(current), Num(6, 10)))
    [] label = "shooting_star" ->
         /\ Ge(UpperShadowOf(current), Mul(BodyOf(current), I(2)))
         /\ Lt(LowerShadowOf(current), Div(BodyOf(current), I(2)))
         /\ ~Gt(current.c, current.o)
    [] label = "engulfing_bullish" ->
         /\ Gt(current.c, current.o) /\ ~Gt(previous.c, previous.o)
         /\ Gt(BodyOf(current), BodyOf(previous))
         /\ Le(current.o, previous.c) /\ Ge(current.c, previous.o)
    [] label = "engulfing_bearish" ->
         /\ ~Gt(current.c, current.o) /\ Gt(previous.c, previous.o)
         /\ Gt(BodyOf(current), BodyOf(previous))
         /\ Ge(current.o, previous.c) /\ Le(current.c, previous.o)
    [] OTHER -> TRUE

\* the order in which the detector tries the labels
PatternOrder ==
  << "gravestone_doji", "doji", "hammer", "long_lower_shadow", "shooting_star",
     "engulfing_bullish", "engulfing_bearish", "none" >>

\* the first label of PatternOrder whose shape the two candles have
FirstPattern(previous, current, atrValue) ==
  PatternOrder[Least({ k \in 1..Len(PatternOrder) :
                         PatternShape(PatternOrder[k], previous, current, atrValue) })]

\* C22: detectCandlestickPattern returns one label of CandlestickPattern:
\* "none" without two candles or without an ATR, otherwise the first label in
\* the order doji/gravestone doji, hammer, long lower shadow, shooting star,
\* bullish engulfing, bearish engulfing whose shape the candles have; a
\* candle of non-zero range with a body below 10% of the ATR is labelled
\* doji or gravestone doji.
C22_PatternPrecedence ==
  (fnCall.fn = "detectCandlestickPattern" /\ fnResult.called) =>
    /\ fnResult.value \in CandlestickPatterns
    /\ IF Len(fnCall.series) < 2 \/ ~Truthy(fnCall.arg)
       THEN fnResult.value = "none"
       ELSE /\ fnResult.value = FirstPattern(fnCall.series[1], fnCall.series[2], fnCall.arg)
            /\ SmallBody(fnCall.series[2], fnCall.arg)
                 => fnResult.value \in {"doji", "gravestone_doji"}

\* the detector has labelled doji a bullish candle with a small body that
\* has the shape of a hammer
C22_SmallBodiedHammerIsDoji ==
  /\ fnCall.fn = "detectCandlestickPattern"
  /\ fnResult.called
  /\ Len(fnCall.series) = 2
  /\ Truthy(fnCall.arg)
  /\ SmallBody(fnCall.series[2], fnCall.arg)
  /\ PatternShape("hammer", fnCall.series[1], fnCall.series[2], fnCall.arg)
  /\ fnResult.value = "doji"

\* the share of the buyer volume in the volume of the last lookback candles,
\* the volume of a candle that closes at its open counted half to each side
BuyerRatio(candles, lookback) ==
  LET recent == SliceLast(candles, lookback)
      buyer == Sum([k \in 1..Len(recent) |->
                      IF Gt(recent[k].c, recent[k].o) THEN Mul(recent[k].v, I(2))
                      ELSE IF Lt(recent[k].c, recent[k].o) THEN I(0)
                      ELSE recent[k].v])
  IN  Div(buyer, Mul(Sum(Volumes(recent)), I(2)))

\* min(200 * |ratio - 0.5|, 100)
LinearStrength(ratio) == Min2(Mul(Abs(Sub(ratio, Num(1, 2))), I(200)), I(100))

\* a call of analyzeVolumeShift on a full window of non-zero volume has returned
VolumeAnalysed ==
  /\ fnCall.fn = "analyzeVolumeShift"
  /\ fnResult.called
  /\ Len(fnCall.series) >= fnCall.arg
  /\ Sum(Volumes(SliceLast(fnCall.series, fnCall.arg))) # I(0)

\* the shift is buyer iff the buyer ratio is above 0.6, seller iff it is
\* below 0.4, neutral otherwise
ShiftByRatio ==
  LET ratio == BuyerRatio(fnCall.series, fnCall.arg)
  IN  fnResult.value.shift = IF Gt(ratio, Num(6, 10)) THEN "buyer"
                             ELSE IF Lt(ratio, Num(4, 10)) THEN "seller"
                             ELSE "neutral"

\* C23 as stated: for every window of non-zero volume the shift follows the
\* buyer ratio and the strength is min(200 * |buyerRatio - 0.5|, 100).
C23_StrengthLinearEverywhere ==
  VolumeAnalysed =>
    /\ ShiftByRatio
    /\ fnResult.value.strength = LinearStrength(BuyerRatio(fnCall.series, fnCall.arg))

\* C23, amended: for every window of non-zero volume the shift follows the
\* buyer ratio; the strength is min(200 * |buyerRatio - 0.5|, 100) when the
\* shift is buyer or seller, and 0 when it is neutral.
C23_StrengthLinearOutsideNeutral ==
  VolumeAnalysed =>
    /\ ShiftByRatio
    /\ fnResult.value.strength =
         IF fnResult.value.shift = "neutral" THEN I(0)
         ELSE LinearStrength(BuyerRatio(fnCall.series, fnCall.arg))

\* a window with a buyer ratio strictly between 0.5 and 0.6, half of it from
\* a candle closing at its open, has been analysed as neutral
C23_NeutralOffMidpoint ==
  /\ VolumeAnalysed
  /\ Gt(BuyerRatio(fnCall.series, fnCall.arg), Num(1, 2))
  /\ Lt(BuyerRatio(fnCall.series, fnCall.arg), Num(6, 10))
  /\ \E k \in 1..Len(fnCall.series) :
       fnCall.series[k].c = fnCall.series[k].o /\ fnCall.series[k].v # I(0)
  /\ fnResult.value.shift = "neutral"

\* no close of the last period + 1 closes lies below the one before it
NoLoss(closes, period) ==
  \A i \in (Len(closes) - period + 1)..Len(closes) : Ge(closes[i], closes[i - 1])

\* all of the last period + 1 closes are equal
AllFlat(closes, period) ==
  \A i \in (Len(closes) - period + 1)..Len(closes) : closes[i] = closes[i - 1]

\* the highest high of the last period candles equals their lowest low
ZeroRange(candles, period) ==
  MaxOf(Highs(SliceLast(candles, period))) = MinOf(Lows(SliceLast(candles, period)))

\* C24: rsi over a window of period + 1 closes without a loss returns 100,
\* and stochasticK over period candles whose highest high equals their
\* lowest low returns 50.
C24_DegenerateWindows ==
  fnResult.called =>
    /\ (fnCall.fn = "rsi" /\ Len(fnCall.series) >= fnCall.arg + 1
        /\ NoLoss(fnCall.series, fnCall.arg)) => fnResult.value = I(100)
    /\ (fnCall.fn = "stochasticK" /\ Len(fnCall.series) >= fnCall.arg
        /\ ZeroRange(fnCall.series, fnCall.arg)) => fnResult.value = I(50)

\* rsi has returned 100 for a window whose closes are all equal
C24_FlatWindowRsi ==
  /\ fnCall.fn = "rsi"
  /\ fnResult.called
  /\ Len(fnCall.series) >= fnCall.arg + 1
  /\ AllFlat(fnCall.series, fnCall.arg)
  /\ fnResult.value = I(100)

(***************************************************************************)
(* providers/cache.ts and the historical-data methods of                   *)
(* TwelveDataProvider. Time is counted in hours, a calendar day has 24 of  *)
(* them; lengths of serialized JSON are counted in abstract bytes. The     *)
(* counters hits, misses and size of CacheStats are left out: no method    *)
(* modelled here reads them.                                               *)
(***************************************************************************)
\* DEFAULT_CONFIG, the TTLs in hours
DailyDataTTL == 4
WeeklyDataTTL == 24
MonthlyDataTTL == 24

\* config.maxSizeBytes and config.maxApiCallsPerDay of the modelled DataCache
MaxSizeBytes == 8
MaxApiCallsPerDay == 2

\* new Date().toISOString().split('T')[0], as a day number
getTodayString(now) == now \div 24

getTTL(interval) ==
  CASE interval = "1day" -> DailyDataTTL
    [] interval = "1week" -> WeeklyDataTTL
    [] interval = "1month" -> MonthlyDataTTL
    [] OTHER -> DailyDataTTL

\* DataCache.getKey(symbol, interval) without a date argument
getKey(symbol, interval, now) ==
  [symbol |-> symbol, interval |-> interval, date |-> getTodayString(now)]

\* JSON.stringify(entry).length
EntryBytes(entry) == entry.bytes

\* JSON.stringify(obj).length: every entry with its key
RECURSIVE SerializedLength(_)
SerializedLength(obj) ==
  IF obj = <<>> THEN 0
  ELSE (1 + EntryBytes(obj[1])) + SerializedLength(SubSeq(obj, 2, Len(obj)))

\* store.get(key): the position of the entry of key, 0 when there is none
PositionOf(store, key) ==
  IF \E k \in 1..Len(store) : store[k].key = key
  THEN CHOOSE k \in 1..Len(store) : store[k].key = key
  ELSE 0

\* store.delete(key) for each key of keys
DeleteKeys(store, keys) ==
  LET kept(entry) == entry.key \notin keys
  IN  SelectSeq(store, kept)

evictExpired(store, now) ==
  DeleteKeys(store, { store[k].key : k \in { j \in 1..Len(store) : store[j].expiresAt < now } })

\* the keys evictLRU deletes from entries, sorted oldest first, once freedBytes
\* have been freed already
RECURSIVE EvictedKeys(_, _, _)
EvictedKeys(entries, freedBytes, bytesToFree) ==
  IF entries = <<>> \/ freedBytes >= bytesToFree THEN {}
  ELSE {entries[1].key}
       \cup EvictedKeys(SubSeq(entries, 2, Len(entries)),
                        freedBytes + EntryBytes(entries[1]), bytesToFree)

evictLRU(store, bytesToFree) ==
  DeleteKeys(store,
             EvictedKeys(StableSort(store, [k \in 1..Len(store) |-> I(store[k].timestamp)]),
                         0, bytesToFree))

\* saveToStorage: {store, storage}. obj is built before the eviction and is
\* what setItem writes; setItem is taken to succeed.
saveToStorage(store, stats, stored) ==
  LET obj == store
      serialized == SerializedLength(obj)
  IN  [ store |-> IF serialized > MaxSizeBytes
                  THEN evictLRU(store, serialized - MaxSizeBytes)
                  ELSE store,
        storage |-> [hasCache |-> TRUE, cache |-> obj, hasStats |-> TRUE, stats |-> stats] ]

\* DataCache.get: {store, hit, data}
CacheGet(store, key, now) ==
  LET live == evictExpired(store, now)
      at == PositionOf(live, key)
  IN  IF at = 0 THEN [store |-> live, hit |-> FALSE, data |-> <<>>]
      ELSE [store |-> [live EXCEPT ![at].timestamp = now], hit |-> TRUE, data |-> live[at].data]

\* DataCache.set: {store, storage}
CacheSet(store, stats, stored, key, data, ttl, now) ==
  LET entry == [key |-> key, data |-> data, bytes |-> data.bytes, timestamp |-> now,
                expiresAt |-> now + ttl]
      at == PositionOf(store, key)
  IN  saveToStorage(IF at = 0 THEN Append(store, entry) ELSE [store EXCEPT ![at] = entry],
                    stats, stored)

\* the stats after the counting part of trackApiCall
TrackedStats(stats, now) ==
  [ apiCallsToday |-> (IF stats.lastResetDate # getTodayString(now) THEN 0
                       ELSE stats.apiCallsToday) + 1,
    lastResetDate |-> getTodayString(now) ]

isRateLimitExceeded(stats) == stats.apiCallsToday >= MaxApiCallsPerDay

getRemainingCalls(stats) ==
  IF MaxApiCallsPerDay - stats.apiCallsToday > 0
  THEN MaxApiCallsPerDay - stats.apiCallsToday ELSE 0

\* new DataCache() with loadFromStorage: {store, stats}
NewDataCache(stored, now) ==
  [ store |-> IF stored.hasCache THEN evictExpired(stored.cache, now) ELSE <<>>,
    stats |-> IF stored.hasStats
              THEN IF stored.stats.lastResetDate # getTodayString(now)
                   THEN [apiCallsToday |-> 0, lastResetDate |-> getTodayString(now)]
                   ELSE stored.stats
              ELSE [apiCallsToday |-> 0, lastResetDate |-> getTodayString(now)] ]

\* the symbols and intervals of the calls, and the size of the candles the
\* API returns for a symbol
Requests == { <<"AAPL", "1day">>, <<"AAPL", "1week">>, <<"MSFT", "1day">> }
CandleBytes(symbol) == IF symbol = "AAPL" THEN 3 ELSE 2

\* the candles the API returns for a request answered at hour now
Candles(symbol, interval, now) ==
  [symbol |-> symbol, interval |-> interval, asOf |-> now, bytes |-> CandleBytes(symbol)]

\* the provider as one record
Provider == [store |-> cacheStore, stats |-> cacheStats, storage |-> storage,
             calls |-> calls, batch |-> batch]

\* getHistoricalData up to its first await: the cache lookup, the rate-limit
\* check and the fetch. The call is logged with what it observed: the stats
\* at the check and the calls that had returned before it began.
BeginCall(p, symbol, interval, by, now) ==
  LET key == getKey(symbol, interval, now)
      got == CacheGet(p.store, key, now)
      call == [symbol |-> symbol, interval |-> interval, key |-> key, by |-> by,
               startedAt |-> now, resetDateSeen |-> p.stats.lastResetDate,
               after |-> { id \in 1..Len(p.calls) : p.calls[id].pc = "returned" },
               sent |-> FALSE, pc |-> "returned", result |-> "hit", data |-> got.data,
               endedAt |-> now]
  IN  [ p EXCEPT
          !.store = got.store,
          !.calls = Append(p.calls,
                      IF got.hit THEN call
                      ELSE IF isRateLimitExceeded(p.stats)
                        THEN [call EXCEPT !.result = "rate limit"]
                      ELSE [call EXCEPT !.sent = TRUE, !.pc = "awaiting", !.result = "pending"]) ]

\* getHistoricalData from the answer of the API on: kind is "ok" (values
\* returned), "api error" (HTTP 200 with status error or without values) or
\* "failed" (fetch rejected, or response.ok false)
EndCall(p, id, kind, now) ==
  LET call == p.calls[id]
      tracked == TrackedStats(p.stats, now)
      counted == saveToStorage(p.store, tracked, p.storage)
      data == Candles(call.symbol, call.interval, now)
      cached == CacheSet(counted.store, tracked, counted.storage, call.key, data,
                         getTTL(call.interval), now)
  IN  CASE kind = "failed" ->
             [p EXCEPT !.calls[id].pc = "returned", !.calls[id].result = "failed",
                       !.calls[id].endedAt = now]
        [] kind = "api error" ->
             [p EXCEPT !.stats = tracked, !.store = counted.store, !.storage = counted.storage,
                       !.calls[id].pc = "returned", !.calls[id].result = "api error",
                       !.calls[id].endedAt = now]
        [] OTHER ->
             [p EXCEPT !.stats = tracked, !.store = cached.store, !.storage = cached.storage,
                       !.calls[id].pc = "returned", !.calls[id].result = "candles",
                       !.calls[id].data = data, !.calls[id].endedAt = now]

RECURSIVE BatchTurn(_, _)

\* getBatchHistoricalData after the await of getHistoricalData for toFetch[i],
\* which was call id: candles are added to the results and the delay follows
\* unless the symbol was the last; an error goes to the next turn at once
AfterBatchCall(p, id, now) ==
  IF p.calls[id].result \in {"hit", "candles"}
  THEN [p EXCEPT !.batch.results = p.batch.results \cup {p.calls[id].symbol},
                 !.batch.pc = IF p.batch.i < Len(p.batch.toFetch) THEN "delaying" ELSE "done"]
  ELSE BatchTurn([p EXCEPT !.batch.i = p.batch.i + 1], now)

\* the fetch loop of getBatchHistoricalData from toFetch[i] on, up to its
\* next await
BatchTurn(p, now) ==
  IF p.batch.i > Len(p.batch.toFetch) \/ isRateLimitExceeded(p.stats)
  THEN [p EXCEPT !.batch.pc = "done"]
  ELSE LET begun == BeginCall(p, p.batch.toFetch[p.batch.i], p.batch.interval, "batch", now)
       IN  IF begun.calls[Len(begun.calls)].pc = "awaiting"
           THEN [begun EXCEPT !.batch.pc = "waiting"]
           ELSE AfterBatchCall(begun, Len(begun.calls), now)

\* the cache lookups of getBatchHistoricalData for symbols[from..]: the
\* store after them, the symbols found and those to fetch
RECURSIVE BatchLookups(_, _, _, _, _)
BatchLookups(store, symbols, interval, from, now) ==
  IF from > Len(symbols) THEN [store |-> store, results |-> {}, toFetch |-> <<>>]
  ELSE LET got == CacheGet(store, getKey(symbols[from], interval, now), now)
           rest == BatchLookups(got.store, symbols, interval, from + 1, now)
       IN  [ store |-> rest.store,
             results |-> IF got.hit THEN {symbols[from]} \cup rest.results ELSE rest.results,
             toFetch |-> IF got.hit THEN rest.toFetch ELSE <<symbols[from]>> \o rest.toFetch ]

\* getBatchHistoricalData up to its first await
BeginBatch(p, symbols, interval, now) ==
  LET looked == BatchLookups(p.store, symbols, interval, 1, now)
  IN  BatchTurn([p EXCEPT !.store = looked.store,
                          !.batch = [pc |-> "running", interval |-> interval,
                                     toFetch |-> looked.toFetch, i |-> 1,
                                     results |-> looked.results]],
                now)

\* the most getHistoricalData calls begun, the last hour of the clock, the
\* hours at which the clock is read, and the most re-creations of the page
MaxCalls == 3
MaxHour == 24
Instants == { h \in {0, 2, 24, 26, 48} : h <= MaxHour }
MaxReloads == 1

\* the symbol lists of the batch calls
BatchLists == { <<"AAPL", "MSFT">> }

Becomes(p) ==
  /\ cacheStore' = p.store
  /\ cacheStats' = p.stats
  /\ storage' = p.storage
  /\ calls' = p.calls
  /\ batch' = p.batch

\* the turns the fetch loop of a running batch has still to come
TurnsToCome ==
  IF batch.pc \in {"waiting", "delaying"} THEN Len(batch.toFetch) - batch.i ELSE 0

ProviderInit == FreshProvider /\ EngineIdle /\ IndicatorIdle

\* the page calls getHistoricalData(symbol, interval)
GetHistoricalData ==
  /\ Len(calls) + TurnsToCome < MaxCalls
  /\ \E request \in Requests :
       Becomes(BeginCall(Provider, request[1], request[2], "page", wallClock))
  /\ UNCHANGED <<engineInput, clock, output, lastOutput, fnCall, fnResult, wallClock, instance>>

\* the API answers a pending request, or the request fails
Answer ==
  /\ \E id \in 1..Len(calls), kind \in {"ok", "api error", "failed"} :
       /\ calls[id].pc = "awaiting"
       /\ IF calls[id].by = "batch"
          THEN Becomes(AfterBatchCall(EndCall(Provider, id, kind, wallClock), id, wallClock))
          ELSE Becomes(EndCall(Provider, id, kind, wallClock))
  /\ UNCHANGED <<engineInput, clock, output, lastOutput, fnCall, fnResult, wallClock, instance>>

\* the page calls getBatchHistoricalData(symbols, "1day")
GetBatchHistoricalData ==
  /\ batch.pc \in {"idle", "done"}
  /\ \E symbols \in BatchLists :
       /\ Len(calls) + Len(symbols) <= MaxCalls
       /\ Becomes(BeginBatch(Provider, symbols, "1day", wallClock))
  /\ UNCHANGED <<engineInput, clock, output, lastOutput, fnCall, fnResult, wallClock, instance>>

\* the delay between two requests of the batch is over
BatchDelayOver ==
  /\ batch.pc = "delaying"
  /\ Becomes(BatchTurn([Provider EXCEPT !.batch.i = batch.i + 1, !.batch.pc = "running"],
                       wallClock))
  /\ UNCHANGED <<engineInput, clock, output, lastOutput, fnCall, fnResult, wallClock, instance>>

\* time passes
Later ==
  /\ \E h \in Instants : h > wallClock /\ wallClock' = h
  /\ UNCHANGED <<engineInput, clock, output, lastOutput, fnCall, fnResult, cacheStore,
                 cacheStats, storage, calls, batch, instance>>

\* the page is loaded anew: pending requests are dropped, a new DataCache
\* loads what localStorage holds
Reload ==
  /\ instance < MaxReloads
  /\ instance' = instance + 1
  /\ cacheStore' = NewDataCache(storage, wallClock).store
  /\ cacheStats' = NewDataCache(storage, wallClock).stats
  /\ calls' = [id \in 1..Len(calls) |->
                 IF calls[id].pc = "awaiting"
                 THEN [calls[id] EXCEPT !.pc = "dropped", !.result = "dropped"]
                 ELSE calls[id]]
  /\ batch' = NoBatch
  /\ UNCHANGED <<engineInput, clock, output, lastOutput, fnCall, fnResult, wallClock, storage>>

ProviderNext ==
  GetHistoricalData \/ Answer \/ GetBatchHistoricalData \/ BatchDelayOver \/ Later \/ Reload

ProviderSpec == ProviderInit /\ [][ProviderNext]_vars

\* C25: the daily rate limit does not outlast the day: getHistoricalData
\* throws the rate-limit error only while the counted calls are those of the
\* calendar day of the call, so that a call missing the cache on a later day
\* is admitted.
C25_RateLimitEndsWithTheDay ==
  \A id \in 1..Len(calls) :
    calls[id].result = "rate limit"
      => calls[id].resetDateSeen = getTodayString(calls[id].startedAt)

\* C26: a getHistoricalData call begun less than the TTL of the interval
\* after a call for the same symbol and interval returned fetched candles
\* returns from the cache and sends no request.
C26_FreshFetchIsServedFromCache ==
  \A first \in 1..Len(calls), second \in 1..Len(calls) :
    ( /\ calls[first].result = "candles"
      /\ first \in calls[second].after
      /\ calls[second].symbol = calls[first].symbol
      /\ calls[second].interval = calls[first].interval
      /\ calls[second].startedAt - calls[first].endedAt < getTTL(calls[first].interval) )
    => calls[second].result = "hit" /\ ~calls[second].sent

\* a fetch returns candles in this step, which is when DataCache.set runs
SetRuns ==
  \E id \in 1..Len(calls) :
    /\ calls[id].pc = "awaiting"
    /\ Len(calls') = Len(calls)
    /\ calls'[id].result = "candles"

\* C27: after every DataCache.set what localStorage holds of the cache is at
\* most maxSizeBytes long and equals the store in memory.
C27_PersistedCacheWithinLimit ==
  [][ SetRuns => /\ SerializedLength(storage'.cache) <= MaxSizeBytes
                 /\ storage'.cache = cacheStore' ]_vars

\* the requests sent to the API
RequestsSent == Cardinality({ id \in 1..Len(calls) : calls[id].sent })

\* C28: within one calendar day of one page, apiCallsToday never exceeds
\* maxApiCallsPerDay, and once no request is pending getRemainingCalls
\* leaves out no request sent.
C28_CounterBoundedAndExact ==
  (wallClock < 24 /\ instance = 0)
    => /\ cacheStats.apiCallsToday <= MaxApiCallsPerDay
       /\ (\A id \in 1..Len(calls) : calls[id].pc # "awaiting")
            => getRemainingCalls(cacheStats) <= MaxApiCallsPerDay - RequestsSent

\* the patterns the bullish block of classifyLeoReversal accepts, which are
\* also the ones the form offers
BullishPatterns == {"doji", "hammer", "long_lower_shadow", "engulfing_bullish"}

\* the patterns the bearish block of classifyLeoReversal accepts
BearishPatterns == {"gravestone_doji", "shooting_star", "engulfing_bearish"}

\* params.candlestick_patterns is non-empty and lists bullish patterns only
BullishListOnly ==
  /\ MergedParams.candlestick_patterns # <<>>
  /\ \A k \in 1..Len(MergedParams.candlestick_patterns) :
       MergedParams.candlestick_patterns[k] \in BullishPatterns

\* C29: in Leo mode with a non-empty list of bullish patterns only, no ticker
\* is classified Reversal_Distribution or BB_Upper_Reject.
C29_NoBearishPatternReason ==
  (output.error = "none" /\ MergedParams.leo_mode_enabled /\ BullishListOnly)
    => \A j \in 1..Len(output.analyses) :
         output.analyses[j].setupReason \notin {"Reversal_Distribution", "BB_Upper_Reject"}

\* a call in Leo mode with a non-empty bullish-only list in which a ticker
\* with a bearish pattern in the overbought zone is classified
\* Stoch_Overbought_Reversal
C29_BearishPatternFallsToStoch ==
  /\ output.error = "none"
  /\ MergedParams.leo_mode_enabled
  /\ BullishListOnly
  /\ \E j \in 1..Len(output.analyses) :
       /\ output.analyses[j].setupReason = "Stoch_Overbought_Reversal"
       /\ DetectedPattern(output.analyses[j].ticker) \in BearishPatterns

\* the last close of the entry is above the close before it
ClosedHigher(entry) ==
  LET candles == Arr(entry.candles)
  IN  Len(candles) >= 2 /\ Gt(candles[Len(candles)].c, candles[Len(candles) - 1].c)

\* the standard reasons tried after Fib Pullback
LateReasons == {"Pullback", "Consolidation", "Reversal"}

\* C30: with fib_zone "*" and Leo mode off, a ticker that passes the filters
\* and closed above its previous close is classified, and not as Pullback,
\* Consolidation or Reversal.
C30_RisingCloseNeverLateReason ==
  (output.error = "none" /\ MergedParams.fib_zone = "*" /\ ~MergedParams.leo_mode_enabled)
    => \A k \in 1..Len(engineInput.timeseries) :
         LET entry == engineInput.timeseries[k]
         IN  (Qualifies(entry, engineInput.metadata, MergedParams, clock) /\ ClosedHigher(entry))
               => ReasonOf(entry.ticker) \notin LateReasons \cup {NullStr}

\* a call with fib_zone "*" and Leo mode off in which a ticker that closed
\* higher is neither Breakout nor Momentum and is classified Fib Pullback
C30_RisingCloseFibPullback ==
  /\ output.error = "none"
  /\ MergedParams.fib_zone = "*"
  /\ ~MergedParams.leo_mode_enabled
  /\ \E k \in 1..Len(engineInput.timeseries) :
       LET entry == engineInput.timeseries[k]
       IN  /\ Qualifies(entry, engineInput.metadata, MergedParams, clock)
           /\ ClosedHigher(entry)
           /\ ReasonOf(entry.ticker) = "Fib Pullback"

====
